---- MODULE Spec2Model ----
(***************************************************************************)
(* Model of the refined `ecs` module (src/unnamed/part_000, lines          *)
(* 721-1681): component registry, Mask, Entity, Context, Group, matchers   *)
(* and the system family driven by RootSystem.execute.                     *)
(*                                                                         *)
(* Objects are represented by their identity:                              *)
(*   - an Entity object by its eid (assigned once by the constructor and   *)
(*     kept when the object is recycled through Context.entityPool);       *)
(*   - a component instance of type t by the serial number 1,2,... of its  *)
(*     construction (`new this.componentTypes[t]`); 0 stands for           *)
(*     null/undefined;                                                     *)
(*   - a Group by its position in Context.groups (insertion order).        *)
(***************************************************************************)
EXTENDS Integers, Sequences, FiniteSets, TLC

(***************************************************************************)
(* Bounds of the model.                                                    *)
(***************************************************************************)
MaxEntities == 2      \* Entity objects ever constructed (new Entity())
MaxInst     == 2      \* component instances ever constructed per type
MaxCount    == 3      \* cap on Group.count (it is an unbounded counter)
TickEntities == 1     \* Entity objects the application of SpecTick constructs
MaxGroups   == 2      \* groups the application of SpecGroups creates
MaxCtors    == 65     \* component classes the application of SpecRegistry registers
MaxRules    == 3      \* rules of a matcher of SpecMatcher

(***************************************************************************)
(* Registered component types: Position (tid 0) and Velocity (tid 1), the  *)
(* scenario of the specification.  compTid is the registry counter after   *)
(* both registrations.                                                     *)
(***************************************************************************)
Types   == {0, 1}
compTid == Cardinality(Types)

EIDs  == 1 .. MaxEntities
Insts == 0 .. MaxInst

(***************************************************************************)
(* The component registry: compTid and componentConstructors.  A component *)
(* class is represented by a number; the entry of componentConstructors    *)
(* for a class carries the static fields register has set on it.  A class  *)
(* that was never passed to register has no tid field: reading it gives    *)
(* undefined, represented by Undefined, a number that is no id and is not  *)
(* -1.                                                                      *)
(***************************************************************************)
Undefined == 0 - 2

\* compTid = 0 and componentConstructors = []
EmptyRegistry == [compTid |-> 0, componentConstructors |-> <<>>]

\* ctor.tid
CtorTid(r, c) ==
    IF \E i \in DOMAIN r.componentConstructors : r.componentConstructors[i].ctor = c
    THEN LET i == CHOOSE i \in DOMAIN r.componentConstructors :
                      r.componentConstructors[i].ctor = c
         IN  r.componentConstructors[i].tid
    ELSE Undefined

\* register(componentName)(ctor): [reg, threw]
Register(r, c, componentName) ==
    IF CtorTid(r, c) = Undefined      \* ctor.tid == null
    THEN [ reg |-> [ compTid |-> r.compTid + 1,
                     componentConstructors |->
                         Append(r.componentConstructors,
                                [ctor |-> c, tid |-> r.compTid,
                                 compName |-> componentName]) ],
           threw |-> FALSE ]
    ELSE [ reg |-> r, threw |-> TRUE ]

\* the registry of the application of Spec and SpecTick: Position, Velocity
Registered == Register(Register(EmptyRegistry, 1, "Position").reg, 2, "Velocity").reg

\* the tids of the classes of ctors, as Matcher.anyOf/allOf/... collect them
TidsOf(r, ctors) == [i \in DOMAIN ctors |-> CtorTid(r, ctors[i])]

(***************************************************************************)
(* Mask (Uint32Array).  A word is represented by the set of its set bit    *)
(* positions 0..31; a mask is the sequence of its words.                   *)
(***************************************************************************)
WordBits == 32

\* Math.ceil(compTid / 32)
MaskLength == (compTid + WordBits - 1) \div WordBits

\* new Mask() when compTid is n: a zeroed Uint32Array of Math.ceil(n / 32) words
NewMaskN(n) == [i \in 1 .. ((n + WordBits - 1) \div WordBits) |-> {}]

\* new Mask(): a zeroed Uint32Array of MaskLength words
NewMask == [i \in 1 .. MaskLength |-> {}]

\* index of the word of bit num: (num / 32) >>> 0, 1-based here; undefined / 32
\* is NaN and NaN >>> 0 is 0
WordOf(num) == IF num = Undefined THEN 1 ELSE (num \div WordBits) + 1

\* the shift count of 1 << (num % 32); undefined % 32 is NaN and shifts by 0
BitOf(num) == IF num = Undefined THEN 0 ELSE num % WordBits

\* Mask.set: a store outside the typed array is ignored
MaskSet(m, num) ==
    IF WordOf(num) \in DOMAIN m
    THEN [m EXCEPT ![WordOf(num)] = @ \cup {BitOf(num)}]
    ELSE m

\* Mask.delete
MaskDelete(m, num) ==
    IF WordOf(num) \in DOMAIN m
    THEN [m EXCEPT ![WordOf(num)] = @ \ {BitOf(num)}]
    ELSE m

\* Mask.has: !!(word & (1 << bit)); a word outside the array reads undefined
MaskHas(m, num) ==
    /\ WordOf(num) \in DOMAIN m
    /\ BitOf(num) \in m[WordOf(num)]

\* word of `other` at index i (undefined is 0 under &)
WordAt(other, i) == IF i \in DOMAIN other THEN other[i] ELSE {}

\* The numeric value of the result of the `&` operator: a signed 32-bit
\* integer.  It is represented by <<top, low>> standing for
\* top * 2^31 + (sum of 2^b for b in low); bit 31 has weight -2^31.
Int32Value(w) == << IF 31 \in w THEN -1 ELSE 0, w \ {31} >>

\* The numeric value read from a Uint32Array element: bit 31 has weight +2^31.
Uint32Value(w) == << IF 31 \in w THEN 1 ELSE 0, w \ {31} >>

\* Mask.or: some word has (this[i] & other[i]) truthy
MaskOr(this, other) ==
    \E i \in DOMAIN this : Int32Value(this[i] \cap WordAt(other, i)) # <<0, {}>>

\* Mask.and: no word has (this[i] & other[i]) != this[i]
MaskAnd(this, other) ==
    \A i \in DOMAIN this :
        Int32Value(this[i] \cap WordAt(other, i)) = Uint32Value(this[i])

\* Mask.clear
MaskClear(m) == [i \in DOMAIN m |-> {}]

(***************************************************************************)
(* Sequences helpers (Array.indexOf, Array.sort, Array.join).              *)
(***************************************************************************)
Contains(s, x) == \E i \in DOMAIN s : s[i] = x

RECURSIVE SortedSeq(_)
\* the ascending sequence of the numbers of a finite set
SortedSeq(S) ==
    IF S = {} THEN <<>>
    ELSE LET m == CHOOSE x \in S : \A y \in S : x <= y
         IN  <<m>> \o SortedSeq(S \ {m})

Range(s) == {s[i] : i \in DOMAIN s}

RECURSIVE Without(_, _)
\* the sequence s without the occurrences of x (Map.delete on an ordered map)
Without(s, x) ==
    IF s = <<>> THEN <<>>
    ELSE IF Head(s) = x THEN Without(Tail(s), x)
    ELSE <<Head(s)>> \o Without(Tail(s), x)

(***************************************************************************)
(* Matcher rules.                                                          *)
(***************************************************************************)
RECURSIVE BaseOfMask(_, _)
\* the loop of BaseOf's constructor on the mask: this.mask.set(args[i])
BaseOfMask(m, args) ==
    IF args = <<>> \/ m = <<>> THEN m    \* a Uint32Array of length 0 takes no store
    ELSE BaseOfMask(MaskSet(m, Head(args)), Tail(args))

RECURSIVE BaseOfIndices(_, _)
\* the loop of BaseOf's constructor on indices: push unless indexOf >= 0
BaseOfIndices(acc, args) ==
    IF args = <<>> THEN acc
    ELSE IF Contains(acc, Head(args)) THEN BaseOfIndices(acc, Tail(args))
    ELSE BaseOfIndices(Append(acc, Head(args)), Tail(args))

\* this.indices.sort((a, b) => a - b): Array.prototype.sort puts undefined last
SortIndices(idx) ==
    SortedSeq(Range(idx) \ {Undefined})
        \o (IF Contains(idx, Undefined) THEN <<Undefined>> ELSE <<>>)

\* whether BaseOf's constructor throws: some componentTypeId == -1
BaseOfThrows(args) == Contains(args, 0 - 1)

\* new AnyOf(...args) / new AllOf(...args) / new ExcludeOf(...args) when
\* compTid is n
BaseOfN(n, kind, args) ==
    LET idx == BaseOfIndices(<<>>, args)
    IN  [ kind    |-> kind,
          mask    |-> BaseOfMask(NewMaskN(n), args),
          indices |-> IF Len(args) > 1 THEN SortIndices(idx) ELSE idx ]

\* new AnyOf(...args) / new AllOf(...args) / new ExcludeOf(...args)
BaseOf(kind, args) == BaseOfN(compTid, kind, args)

AnyOf(args)     == BaseOf("anyOf", args)
AllOf(args)     == BaseOf("allOf", args)
ExcludeOf(args) == BaseOf("excludeOf", args)

\* AnyOf.isMatch / AllOf.isMatch / ExcludeOf.isMatch on an entity's mask
RuleIsMatch(rule, emask) ==
    CASE rule.kind = "anyOf"     -> MaskOr(rule.mask, emask)
      [] rule.kind = "allOf"     -> MaskAnd(rule.mask, emask)
      [] rule.kind = "excludeOf" -> ~ MaskOr(rule.mask, emask)

\* the string Array.prototype.join makes of an element: "" for undefined
ElementToString(x) == IF x = Undefined THEN "" ELSE ToString(x)

RECURSIVE Join(_, _)
\* Array.prototype.join on numbers
Join(s, sep) ==
    IF s = <<>> THEN ""
    ELSE IF Len(s) = 1 THEN ElementToString(s[1])
    ELSE ElementToString(Head(s)) \o sep \o Join(Tail(s), sep)

\* BaseOf.toString
RuleToString(rule) == Join(rule.indices, "-")

\* AnyOf.getKey / AllOf.getKey / ExcludeOf.getKey
RuleGetKey(rule) == rule.kind \o ":" \o RuleToString(rule)

(***************************************************************************)
(* Matcher and OrMatcher: [or, rules].                                     *)
(***************************************************************************)
NewMatcher   == [or |-> FALSE, rules |-> <<>>]
NewOrMatcher == [or |-> TRUE,  rules |-> <<>>]

\* Matcher.anyOf / allOf / excludeOf (args are the tids of the ctors)
MatcherAnyOf(m, args)     == [m EXCEPT !.rules = Append(@, AnyOf(args))]
MatcherAllOf(m, args)     == [m EXCEPT !.rules = Append(@, AllOf(args))]
MatcherExcludeOf(m, args) == [m EXCEPT !.rules = Append(@, ExcludeOf(args))]

\* Matcher.onlyOf: AllOf(args) then ExcludeOf(every other registered tid,
\* in registration order)
MatcherOnlyOf(m, args) ==
    LET otherTids == SelectSeq(SortedSeq(Types), LAMBDA t : ~ Contains(args, t))
    IN  [m EXCEPT !.rules = Append(Append(@, AllOf(args)), ExcludeOf(otherTids))]

\* Matcher.anyOf / allOf / excludeOf / onlyOf called with the classes ctors
\* under registry r: [threw, matcher]
MatcherRule(r, m, kind, ctors) ==
    LET newArgs   == TidsOf(r, ctors)
        first     == IF kind = "onlyOf" THEN "allOf" ELSE kind
        ctorTids  == [i \in DOMAIN r.componentConstructors |->
                         r.componentConstructors[i].tid]
        otherTids == SelectSeq(ctorTids, LAMBDA t : ~ Contains(newArgs, t))
        m1        == [m EXCEPT !.rules = Append(@, BaseOfN(r.compTid, first, newArgs))]
    IN  IF BaseOfThrows(newArgs) THEN [threw |-> TRUE, matcher |-> m]
        ELSE IF kind # "onlyOf" THEN [threw |-> FALSE, matcher |-> m1]
        ELSE IF BaseOfThrows(otherTids) THEN [threw |-> TRUE, matcher |-> m1]
        ELSE [ threw |-> FALSE,
               matcher |-> [m1 EXCEPT !.rules =
                   Append(@, BaseOfN(r.compTid, "excludeOf", otherTids))] ]

RECURSIVE ConcatIndices(_)
ConcatIndices(rules) ==
    IF rules = <<>> THEN <<>>
    ELSE Head(rules).indices \o ConcatIndices(Tail(rules))

\* Matcher.indices: the rules' indices pushed one after the other
MatcherIndices(m) == ConcatIndices(m.rules)

RECURSIVE JoinKeys(_, _)
JoinKeys(rules, sep) ==
    IF rules = <<>> THEN ""
    ELSE IF Len(rules) = 1 THEN RuleGetKey(rules[1])
    ELSE RuleGetKey(Head(rules)) \o sep \o JoinKeys(Tail(rules), sep)

\* Matcher.getKey / OrMatcher.getKey
MatcherGetKey(m) == JoinKeys(m.rules, IF m.or THEN " || " ELSE " && ")

RECURSIVE AllRulesMatch(_, _)
\* the loop of Matcher.isMatch: false at the first rule that fails
AllRulesMatch(rules, emask) ==
    IF rules = <<>> THEN TRUE
    ELSE IF ~ RuleIsMatch(Head(rules), emask) THEN FALSE
    ELSE AllRulesMatch(Tail(rules), emask)

RECURSIVE SomeRuleMatches(_, _)
\* the loop of OrMatcher.isMatch: true at the first rule that matches
SomeRuleMatches(rules, emask) ==
    IF rules = <<>> THEN FALSE
    ELSE IF RuleIsMatch(Head(rules), emask) THEN TRUE
    ELSE SomeRuleMatches(Tail(rules), emask)

\* Matcher.isMatch whose branch for two rules looks at the first rule only
AndIsMatchFirstOfTwo(m, emask) ==
    IF Len(m.rules) = 1 THEN RuleIsMatch(m.rules[1], emask)
    ELSE IF Len(m.rules) = 2 THEN RuleIsMatch(m.rules[1], emask)
    ELSE AllRulesMatch(m.rules, emask)

\* Matcher.isMatch
AndIsMatch(m, emask) ==
    IF Len(m.rules) = 1 THEN RuleIsMatch(m.rules[1], emask)
    ELSE IF Len(m.rules) = 2
         THEN RuleIsMatch(m.rules[1], emask) /\ RuleIsMatch(m.rules[2], emask)
    ELSE AllRulesMatch(m.rules, emask)

\* OrMatcher.isMatch
OrIsMatch(m, emask) ==
    IF Len(m.rules) = 2
    THEN RuleIsMatch(m.rules[1], emask) \/ RuleIsMatch(m.rules[2], emask)
    ELSE IF Len(m.rules) = 1 THEN RuleIsMatch(m.rules[1], emask)
    ELSE SomeRuleMatches(m.rules, emask)

\* IMatcher.isMatch(entity), dispatched on the matcher's class
IsMatch(m, emask) == IF m.or THEN OrIsMatch(m, emask) ELSE AndIsMatch(m, emask)


(***************************************************************************)
(* State.                                                                  *)
(***************************************************************************)
VARIABLES
    entities,             \* the Entity objects: eid -> [context, mask, slot, compTid2Ctor]
    nextEid,              \* Entity.eid, the static id counter
    entityPool,           \* Context.entityPool
    eid2Entity,           \* Context.eid2Entity (its keys in insertion order; the value
                          \* under key k is entity k because an entity's eid never
                          \* changes)
    componentPools,       \* Context.componentPools
    nextInst,             \* per type, the number of instances constructed so far
    groups,               \* Context.groups in insertion order:
                          \* [key, matcher, matchEntities, cache, count]
    componentAddOrRemove, \* Context.componentAddOrRemove: per type the subscribed groups
    tid2comp,             \* the singleton cache, 0 = no entry
    threw,                \* an exception has propagated out of the running operation
    last,                 \* the last operation: [op, e, t, ret, bc, arr, evicted]; bc
                          \* is the sequence of broadcasts it made, each <<typeId, mask
                          \* bit at that time>>; arr the array an update receives or had
                          \* received; evicted, see Evicted
    systems,              \* RootSystem.executeSystemFlows: [kind, group, rGroup]
    phase,                \* where RootSystem.execute is: "idle" (not running), "loop"
                          \* (at the head of its for loop), "update" (inside update),
                          \* "enter" (inside entityEnter)
    tickPos,              \* index in systems of the loop of RootSystem.execute
    arg,                  \* the array handed to the running update
    owed,                 \* per reactive system and entity: 0 no undelivered entry into
                          \* the filter, 1 entered, 2 a tick has begun since, 3 that
                          \* tick has ended
    quiet,                \* per entity: 0 mutated, 1 a tick has begun since, 2 that
                          \* tick has ended
    got,                  \* per system and entity: deliveries to update since the
                          \* entity's last mutation (counted up to 2); for an
                          \* RExecuteSystem: 1 when the entity was passed to
                          \* entityEnter since it last started to match
    reg,                  \* the component registry: [compTid, componentConstructors]
    call,                 \* the last call of a function of the library made on its
                          \* own: [fn, a, b, ret]
    composites,           \* the System objects: [executeSystems, inits, added,
                          \* viaSystem, initCalls]; inits counts the calls of each
                          \* leaf's init, viaSystem holds the leaves the root's
                          \* list received out of a System object
    visited               \* the leaf systems the loop of the running
                          \* RootSystem.execute has reached so far

ctxVars == << entities, nextEid, entityPool, eid2Entity, componentPools, nextInst,
              groups, componentAddOrRemove, tid2comp, threw, last >>

tickVars == << systems, phase, tickPos, arg >>

histVars == << owed, quiet, got, visited >>

libVars == << reg, call, composites >>

vars == << ctxVars, tickVars, histVars, libVars >>

\* new Entity() before its eid is known to anybody
NewEntity == [ context      |-> FALSE,
               mask         |-> NewMask,
               slot         |-> [t \in Types |-> 0],
               compTid2Ctor |-> <<>> ]

\* The state the operations below transform.  ok is FALSE when an operation
\* would leave the bounds of the model; ret is the value it returns.
Cur == [ entities |-> entities, nextEid |-> nextEid, entityPool |-> entityPool,
         eid2Entity |-> eid2Entity, componentPools |-> componentPools,
         nextInst |-> nextInst, groups |-> groups,
         componentAddOrRemove |-> componentAddOrRemove, tid2comp |-> tid2comp,
         threw |-> FALSE, bc |-> <<>>, ret |-> 0, ok |-> TRUE ]

(***************************************************************************)
(* Group.                                                                  *)
(***************************************************************************)
\* new Group(matcher), registered under key
NewGroup(key, matcher) ==
    [ key |-> key, matcher |-> matcher, matchEntities |-> <<>>,
      cache |-> <<>>, count |-> 0 ]

\* Group._entitiesCache: <<>> is null, <<a>> holds the array a
CacheIsNull(g) == g.cache = <<>>

\* Map.set(eid, entity): a present key keeps its place
MapSet(s, k) == IF Contains(s, k) THEN s ELSE Append(s, k)

\* a callback that edits the cached array in place instead of dropping it
OnComponentAddOrRemoveInPlace(g, eid, emask) ==
    IF IsMatch(g.matcher, emask)
    THEN [g EXCEPT !.matchEntities = MapSet(@, eid),
                   !.cache = IF @ = <<>> THEN @ ELSE <<MapSet(@[1], eid)>>,
                   !.count = @ + 1]
    ELSE IF Contains(g.matchEntities, eid)
    THEN [g EXCEPT !.matchEntities = Without(@, eid),
                   !.cache = IF @ = <<>> THEN @ ELSE <<Without(@[1], eid)>>,
                   !.count = @ - 1]
    ELSE g

\* Group.onComponentAddOrRemove(entity)
OnComponentAddOrRemove(g, eid, emask) ==
    IF IsMatch(g.matcher, emask)
    THEN [g EXCEPT !.matchEntities = MapSet(@, eid),
                   !.cache = <<>>,
                   !.count = @ + 1]
    ELSE IF Contains(g.matchEntities, eid)
    THEN [g EXCEPT !.matchEntities = Without(@, eid),
                   !.cache = <<>>,
                   !.count = @ - 1]
    ELSE g

\* Group.clear
GroupClear(g) == [g EXCEPT !.matchEntities = <<>>, !.cache = <<>>, !.count = 0]

\* get Group.matchEntities: the group after the read and the array returned
ReadMatchEntities(g) ==
    IF CacheIsNull(g) THEN [g EXCEPT !.cache = <<g.matchEntities>>] ELSE g

MatchEntitiesOf(g) == ReadMatchEntities(g).cache[1]

(***************************************************************************)
(* Context.                                                                *)
(***************************************************************************)
\* a loop that never reaches events[0]: for (i = length - 1; i > 0; i--)
NotifySkipFirst(gs, events, i, eid, emask) ==
    LET RECURSIVE Loop(_, _)
        Loop(g, k) ==
            IF k < 2 THEN g
            ELSE Loop([g EXCEPT ![events[k]] = OnComponentAddOrRemove(@, eid, emask)],
                      k - 1)
    IN  Loop(gs, i)

RECURSIVE Notify(_, _, _, _, _)
\* the loop of broadcastComponentAddOrRemove: events[i](entity) for
\* i = events.length - 1 down to 0
Notify(gs, events, i, eid, emask) ==
    IF i < 1 THEN gs
    ELSE Notify([gs EXCEPT ![events[i]] = OnComponentAddOrRemove(@, eid, emask)],
                events, i - 1, eid, emask)

\* a broadcast that calls the callbacks of every group, subscribed or not
BroadcastAllGroups(S, eid, t) ==
    LET emask == S.entities[eid].mask
    IN  [S EXCEPT !.groups = [gi \in DOMAIN @ |->
                                 OnComponentAddOrRemove(@[gi], eid, emask)],
                  !.tid2comp = [@ EXCEPT ![t] = 0],
                  !.bc = Append(@, <<t, MaskHas(emask, t)>>)]

\* Context.broadcastComponentAddOrRemove(entity, componentTypeId)
Broadcast(S, eid, t) ==
    LET emask == S.entities[eid].mask
        events == S.componentAddOrRemove[t]
    IN  [S EXCEPT !.groups = Notify(@, events, Len(events), eid, emask),
                  !.tid2comp = [@ EXCEPT ![t] = 0],
                  !.bc = Append(@, <<t, MaskHas(emask, t)>>)]

\* createComponent that never takes an instance from the pool
CreateComponentNoPool(S, t) ==
    IF S.nextInst[t] < MaxInst
    THEN [S EXCEPT !.nextInst[t] = @ + 1, !.ret = S.nextInst[t] + 1]
    ELSE [S EXCEPT !.ok = FALSE]

\* Context.createComponent(ctor): pop the pool or construct
CreateComponent(S, t) ==
    LET pool == S.componentPools[t]
    IN  IF pool # <<>>
        THEN [S EXCEPT !.componentPools[t] = SubSeq(pool, 1, Len(pool) - 1),
                       !.ret = pool[Len(pool)]]
        ELSE IF S.nextInst[t] < MaxInst
        THEN [S EXCEPT !.nextInst[t] = @ + 1, !.ret = S.nextInst[t] + 1]
        ELSE [S EXCEPT !.ok = FALSE]

\* Context.putComponent(componentTypeId, component)
PutComponent(S, t, c) == [S EXCEPT !.componentPools[t] = Append(@, c)]

\* a destroyEntity that pools the entity and leaves it in the live index
ContextDestroyEntityKeepIndex(S, eid) ==
    IF Contains(S.eid2Entity, eid)
    THEN [S EXCEPT !.entityPool = Append(@, eid)]
    ELSE S

\* Context.destroyEntity(entity)
ContextDestroyEntity(S, eid) ==
    IF Contains(S.eid2Entity, eid)
    THEN [S EXCEPT !.entityPool = Append(@, eid),
                   !.eid2Entity = Without(@, eid)]
    ELSE S    \* console.warn

\* Context.createEntity(): pop the pool or construct, then reset and index
CreateEntity(S) ==
    IF S.entityPool # <<>>
    THEN LET eid == S.entityPool[Len(S.entityPool)]
         IN  [S EXCEPT !.entityPool = SubSeq(@, 1, Len(@) - 1),
                       !.entities[eid].context = TRUE,
                       !.eid2Entity = MapSet(@, eid),
                       !.ret = eid]
    ELSE IF S.nextEid <= MaxEntities
    THEN LET eid == S.nextEid
         IN  [S EXCEPT !.nextEid = @ + 1,
                       !.entities[eid] = [NewEntity EXCEPT !.context = TRUE],
                       !.eid2Entity = MapSet(@, eid),
                       !.ret = eid]
    ELSE [S EXCEPT !.ok = FALSE]

(***************************************************************************)
(* Entity.                                                                 *)
(***************************************************************************)
\* a remove that tells no group
EntityRemoveNoBroadcast(S, eid, t) ==
    LET ent == S.entities[eid]
    IN  IF ~ MaskHas(ent.mask, t) THEN S
        ELSE IF ~ ent.context THEN [S EXCEPT !.threw = TRUE]
        ELSE LET S1 == PutComponent(S, t, ent.slot[t])
             IN  [S1 EXCEPT !.entities[eid].slot[t] = 0,
                            !.entities[eid].mask = MaskDelete(@, t),
                            !.entities[eid].compTid2Ctor = Without(@, t)]

\* a remove that pools the instance and leaves it in the entity's slot
EntityRemoveKeepSlot(S, eid, t) ==
    LET ent == S.entities[eid]
    IN  IF ~ MaskHas(ent.mask, t) THEN S
        ELSE IF ~ ent.context THEN [S EXCEPT !.threw = TRUE]
        ELSE LET S1 == PutComponent(S, t, ent.slot[t])
                 S2 == [S1 EXCEPT !.entities[eid].mask = MaskDelete(@, t)]
                 S3 == Broadcast(S2, eid, t)
             IN  [S3 EXCEPT !.entities[eid].compTid2Ctor = Without(@, t)]

\* a remove that broadcasts before it clears the slot and the bit
EntityRemoveBroadcastFirst(S, eid, t) ==
    LET ent == S.entities[eid]
    IN  IF ~ MaskHas(ent.mask, t) THEN S
        ELSE IF ~ ent.context THEN [S EXCEPT !.threw = TRUE]
        ELSE LET S1 == PutComponent(S, t, ent.slot[t])
                 S2 == Broadcast(S1, eid, t)
             IN  [S2 EXCEPT !.entities[eid].slot[t] = 0,
                            !.entities[eid].mask = MaskDelete(@, t),
                            !.entities[eid].compTid2Ctor = Without(@, t)]

\* Entity.remove(ctor)
EntityRemove(S, eid, t) ==
    LET ent == S.entities[eid]
    IN  IF ~ MaskHas(ent.mask, t) THEN S
        ELSE IF ~ ent.context THEN [S EXCEPT !.threw = TRUE]  \* this.context is null
        ELSE LET S1 == PutComponent(S, t, ent.slot[t])
                 S2 == [S1 EXCEPT !.entities[eid].slot[t] = 0,
                                  !.entities[eid].mask = MaskDelete(@, t)]
                 S3 == Broadcast(S2, eid, t)
             IN  [S3 EXCEPT !.entities[eid].compTid2Ctor = Without(@, t)]

\* add that does not remove the component the entity already holds
EntityAddNoReplace(S, eid, t) ==
    IF ~ S.entities[eid].context THEN [S EXCEPT !.ret = 0]
    ELSE LET S2 == [S EXCEPT !.entities[eid].mask = MaskSet(@, t)]
             S3 == CreateComponent(S2, t)
             S4 == [S3 EXCEPT !.entities[eid].slot[t] = S3.ret,
                              !.entities[eid].compTid2Ctor = MapSet(@, t)]
             S5 == Broadcast(S4, eid, t)
         IN  IF S3.ok THEN S5 ELSE S3

\* add without the test of this.context
EntityAddNoContextCheck(S, eid, t) ==
    LET S1 == IF MaskHas(S.entities[eid].mask, t)
              THEN EntityRemove(S, eid, t) ELSE S
        S2 == [S1 EXCEPT !.entities[eid].mask = MaskSet(@, t)]
        S3 == CreateComponent(S2, t)
        S4 == [S3 EXCEPT !.entities[eid].slot[t] = S3.ret,
                         !.entities[eid].compTid2Ctor = MapSet(@, t)]
        S5 == Broadcast(S4, eid, t)
    IN  IF S3.ok THEN S5 ELSE S3

\* Entity.add(ctor)
EntityAdd(S, eid, t) ==
    IF ~ S.entities[eid].context THEN [S EXCEPT !.ret = 0]   \* console.warn; return
    ELSE LET S1 == IF MaskHas(S.entities[eid].mask, t)
                   THEN EntityRemove(S, eid, t) ELSE S
             S2 == [S1 EXCEPT !.entities[eid].mask = MaskSet(@, t)]
             S3 == CreateComponent(S2, t)
             S4 == [S3 EXCEPT !.entities[eid].slot[t] = S3.ret,
                              !.entities[eid].compTid2Ctor = MapSet(@, t)]
             S5 == Broadcast(S4, eid, t)
         IN  IF S3.ok THEN S5 ELSE S3

\* Entity.get(ctor)
EntityGet(S, eid, t) == S.entities[eid].slot[t]

\* Entity.has(ctor): !!this.get(ctor)
EntityHas(S, eid, t) == EntityGet(S, eid, t) # 0

RECURSIVE DestroyLoop(_, _, _)
\* the loop of Entity.destroy over compTid2Ctor.values()
DestroyLoop(S, eid, ctors) ==
    IF ctors = <<>> THEN S
    ELSE IF ~ S.entities[eid].context THEN [S EXCEPT !.threw = TRUE]
    ELSE LET t  == Head(ctors)
             S1 == [S EXCEPT !.entities[eid].mask = MaskDelete(@, t)]
             S2 == Broadcast(S1, eid, t)
             S3 == [S2 EXCEPT !.entities[eid].slot[t] = 0]
         IN  DestroyLoop(S3, eid, Tail(ctors))

\* Entity.destroy()
EntityDestroy(S, eid) ==
    LET S1 == DestroyLoop(S, eid, S.entities[eid].compTid2Ctor)
        S2 == [S1 EXCEPT !.entities[eid].compTid2Ctor = <<>>,
                         !.entities[eid].mask = MaskClear(@)]
    IN  IF S1.threw THEN S1
        ELSE IF ~ S2.entities[eid].context
        THEN [S2 EXCEPT !.threw = TRUE]   \* TypeError: this.context is null
        ELSE [ContextDestroyEntity(S2, eid) EXCEPT !.entities[eid].context = FALSE]

\* Context.createEntityWithComp(ctor)
CreateEntityWithComp(S, t) ==
    LET S1 == CreateEntity(S)
    IN  IF S1.ok THEN EntityAdd(S1, S1.ret, t) ELSE S1

RECURSIVE AddAll(_, _, _)
\* for (let ctor of ctors) entity.add(ctor)
AddAll(S, eid, ctors) ==
    IF ctors = <<>> \/ ~ S.ok THEN S
    ELSE AddAll(EntityAdd(S, eid, Head(ctors)), eid, Tail(ctors))

\* Context.createEntityWithComps(...ctors); ret is the entity
CreateEntityWithComps(S, ctors) ==
    LET S1 == CreateEntity(S)
    IN  IF S1.ok THEN [AddAll(S1, S1.ret, ctors) EXCEPT !.ret = S1.ret] ELSE S1

\* ecs.getSinglton(ctor)
GetSinglton(S, t) ==
    IF S.tid2comp[t] = 0
    THEN LET S1 == CreateEntityWithComp(S, t)
         IN  IF S1.ok THEN [S1 EXCEPT !.tid2comp[t] = S1.ret] ELSE S1
    ELSE [S EXCEPT !.ret = S.tid2comp[t]]

RECURSIVE Subscribe(_, _, _)
\* the loop of createGroup over matcher.indices: push the group's callback
Subscribe(car, indices, gi) ==
    IF indices = <<>> THEN car
    ELSE Subscribe([car EXCEPT ![Head(indices)] = Append(@, gi)], Tail(indices), gi)

\* index in S.groups of the group under key, 0 if there is none
GroupIndex(gs, key) ==
    IF \E i \in DOMAIN gs : gs[i].key = key
    THEN CHOOSE i \in DOMAIN gs : gs[i].key = key
    ELSE 0

\* createGroup that never looks the key up
CreateGroupNoDedup(S, matcher, systemType) ==
    [S EXCEPT !.groups = Append(@, NewGroup(systemType \o "_" \o MatcherGetKey(matcher),
                                            matcher)),
              !.componentAddOrRemove =
                  Subscribe(@, MatcherIndices(matcher), Len(S.groups) + 1),
              !.ret = Len(S.groups) + 1]

\* Context.createGroup(matcher, systemType); ret is the group's index
CreateGroup(S, matcher, systemType) ==
    LET key == systemType \o "_" \o MatcherGetKey(matcher)
        gi  == GroupIndex(S.groups, key)
    IN  IF gi # 0 THEN [S EXCEPT !.ret = gi]
        ELSE [S EXCEPT !.groups = Append(@, NewGroup(key, matcher)),
                       !.componentAddOrRemove =
                           Subscribe(@, MatcherIndices(matcher), Len(S.groups) + 1),
                       !.ret = Len(S.groups) + 1]

RECURSIVE ClearEntities(_, _)
\* this.eid2Entity.forEach((entity) => entity.destroy()): the entries are
\* visited in insertion order, each one is deleted by its own visit
ClearEntities(S, eids) ==
    IF eids = <<>> \/ S.threw THEN S
    ELSE ClearEntities(EntityDestroy(S, Head(eids)), Tail(eids))

\* Context.clear()
ContextClear(S) ==
    LET S1 == [S EXCEPT !.groups = [i \in DOMAIN S.groups |-> GroupClear(S.groups[i])]]
    IN  ClearEntities(S1, S1.eid2Entity)

(***************************************************************************)
(* Construction.                                                           *)
(***************************************************************************)
\* new Context() with no entity, group or singleton yet
EmptyContext ==
    [ entities |-> [e \in EIDs |-> NewEntity], nextEid |-> 1, entityPool |-> <<>>,
      eid2Entity |-> <<>>, componentPools |-> [t \in Types |-> <<>>],
      nextInst |-> [t \in Types |-> 0], groups |-> <<>>,
      componentAddOrRemove |-> [t \in Types |-> <<>>],
      tid2comp |-> [t \in Types |-> 0],
      threw |-> FALSE, bc |-> <<>>, ret |-> 0, ok |-> TRUE ]

\* The matchers the application's systems and groups are built from.
AllOfPV      == MatcherAllOf(NewMatcher, <<0, 1>>)
AnyOfPV      == MatcherAnyOf(NewMatcher, <<0, 1>>)
AllOfP       == MatcherAllOf(NewMatcher, <<0>>)
ExcludeOfV   == MatcherExcludeOf(NewMatcher, <<1>>)
OnlyOfP      == MatcherOnlyOf(NewMatcher, <<0>>)
OrAllPAllV   == MatcherAllOf(MatcherAllOf(NewOrMatcher, <<0>>), <<1>>)

\* The groups the application creates before any entity exists.
GroupSetups ==
    { << <<AllOfPV, "c">>, <<AnyOfPV, "c">>, <<ExcludeOfV, "c">>,
         <<OnlyOfP, "c">>, <<OrAllPAllV, "c">> >> }

RECURSIVE CreateGroups(_, _)
CreateGroups(S, setup) ==
    IF setup = <<>> THEN S
    ELSE CreateGroups(CreateGroup(S, Head(setup)[1], Head(setup)[2]), Tail(setup))

NoOp == [op |-> "init", e |-> 0, t |-> 0, ret |-> 0, bc |-> <<>>, arr |-> <<>>,
         evicted |-> 0]

\* For remove(t) on e: the instance of the singleton cache that it took off its
\* backing entity e and out of the cache (0 if it did not).  For getSinglton(t):
\* that instance of the remove(t) that ran just before it.
Evicted(op, e, t, S) ==
    IF op = "remove"
    THEN IF tid2comp[t] # 0 /\ entities[e].slot[t] = tid2comp[t] /\ S.tid2comp[t] = 0
         THEN tid2comp[t] ELSE 0
    ELSE IF op = "getSinglton" /\ last.op = "remove" /\ last.t = t
    THEN last.evicted
    ELSE 0

\* the record of operation op on entity e and type t that led to S
Op(op, e, t, S) ==
    [op |-> op, e |-> e, t |-> t, ret |-> S.ret, bc |-> S.bc, arr |-> <<>>,
     evicted |-> Evicted(op, e, t, S)]

\* the context variables take the values of S
InitContext(S) ==
    /\ entities = S.entities
    /\ nextEid = S.nextEid
    /\ entityPool = S.entityPool
    /\ eid2Entity = S.eid2Entity
    /\ componentPools = S.componentPools
    /\ nextInst = S.nextInst
    /\ groups = S.groups
    /\ componentAddOrRemove = S.componentAddOrRemove
    /\ tid2comp = S.tid2comp
    /\ threw = FALSE
    /\ last = NoOp

InitHist ==
    /\ owed = [i \in DOMAIN systems |-> [e \in EIDs |-> 0]]
    /\ quiet = [e \in EIDs |-> 0]
    /\ got = [i \in DOMAIN systems |-> [e \in EIDs |-> 0]]
    /\ visited = <<>>

\* no call of a library function on its own yet
NoCall == [fn |-> "none", a |-> <<>>, b |-> <<>>, ret |-> <<>>]

\* the classes Position and Velocity are registered
InitLib ==
    /\ reg = Registered
    /\ call = NoCall
    /\ composites = [executeSystems |-> <<>>, inits |-> <<>>, added |-> {},
                     viaSystem |-> {}, initCalls |-> 0]

Init ==
    /\ \E setup \in GroupSetups : InitContext(CreateGroups(EmptyContext, setup))
    /\ systems = <<>>
    /\ phase = "idle"
    /\ tickPos = 0
    /\ arg = <<>>
    /\ InitHist
    /\ InitLib

(***************************************************************************)
(* Operations of the application on the context.  They are called from     *)
(* outside a tick or from inside a system's update.                        *)
(***************************************************************************)
Callable == ~ threw /\ phase \in {"idle", "update", "enter"}

\* the objects the application can hold a handle of
Constructed == 1 .. (nextEid - 1)

WithinBounds(S) == S.ok /\ \A i \in DOMAIN S.groups : S.groups[i].count <= MaxCount

\* whether entity e is a live entity matching the filter of system i in S
Matches(ents, i, e) ==
    ents[e].context /\ IsMatch(groups[systems[i].group].matcher, ents[e].mask)

\* the history after an operation that took the context to S and mutated
\* the entities of touched
HistAfterOp(S, touched) ==
    /\ owed' = [i \in DOMAIN systems |-> [e \in EIDs |->
                 IF systems[i].kind # "R" THEN 0
                 ELSE IF ~ Matches(S.entities, i, e) THEN 0
                 ELSE IF ~ Matches(entities, i, e) THEN 1
                 ELSE owed[i][e]]]
    /\ quiet' = [e \in EIDs |-> IF e \in touched THEN 0 ELSE quiet[e]]
    /\ got' = [i \in DOMAIN systems |-> [e \in EIDs |->
                 IF systems[i].kind = "X"
                 THEN IF Matches(entities, i, e) /\ Matches(S.entities, i, e)
                      THEN got[i][e] ELSE 0
                 ELSE IF e \in touched THEN 0 ELSE got[i][e]]]
    /\ visited' = visited

\* the context variables become those of S
Commit(S, op) ==
    /\ entities' = S.entities
    /\ nextEid' = S.nextEid
    /\ entityPool' = S.entityPool
    /\ eid2Entity' = S.eid2Entity
    /\ componentPools' = S.componentPools
    /\ nextInst' = S.nextInst
    /\ groups' = S.groups
    /\ componentAddOrRemove' = S.componentAddOrRemove
    /\ tid2comp' = S.tid2comp
    /\ threw' = S.threw
    /\ last' = op

\* context.createEntity()
DoCreateEntity ==
    /\ Callable
    /\ LET S == CreateEntity(Cur)
       IN  /\ WithinBounds(S)
           /\ Commit(S, Op("createEntity", S.ret, 0, S))
           /\ HistAfterOp(S, {S.ret})
    /\ UNCHANGED << tickVars, libVars >>

\* context.createEntityWithComps(...ctors)
DoCreateEntityWithComps(ctors) ==
    /\ Callable
    /\ LET S == CreateEntityWithComps(Cur, ctors)
       IN  /\ WithinBounds(S)
           /\ Commit(S, Op("createEntityWithComps", S.ret, 0, S))
           /\ HistAfterOp(S, {S.ret})
    /\ UNCHANGED << tickVars, libVars >>

\* entity.add(ctor)
DoAdd(e, t) ==
    /\ Callable
    /\ LET S == EntityAdd(Cur, e, t)
       IN  /\ WithinBounds(S)
           /\ Commit(S, Op("add", e, t, S))
           /\ HistAfterOp(S, {e})
    /\ UNCHANGED << tickVars, libVars >>

\* entity.remove(ctor)
DoRemove(e, t) ==
    /\ Callable
    /\ LET S == EntityRemove(Cur, e, t)
       IN  /\ WithinBounds(S)
           /\ Commit(S, Op("remove", e, t, S))
           /\ HistAfterOp(S, {e})
    /\ UNCHANGED << tickVars, libVars >>

\* entity.destroy()
DoDestroy(e) ==
    /\ Callable
    /\ LET S == EntityDestroy(Cur, e)
       IN  /\ WithinBounds(S)
           /\ Commit(S, Op("destroy", e, 0, S))
           /\ HistAfterOp(S, {e})
    /\ UNCHANGED << tickVars, libVars >>

\* context.destroyEntity(entity), called by the application itself
DoContextDestroyEntity(e) ==
    /\ Callable
    /\ LET S == ContextDestroyEntity(Cur, e)
       IN  /\ WithinBounds(S)
           /\ Commit(S, Op("destroyEntity", e, 0, S))
           /\ HistAfterOp(S, {e})
    /\ UNCHANGED << tickVars, libVars >>

\* ecs.getSinglton(ctor)
DoGetSinglton(t) ==
    /\ Callable
    /\ LET S == GetSinglton(Cur, t)
       IN  /\ WithinBounds(S)
           /\ Commit(S, Op("getSinglton", 0, t, S))
           /\ HistAfterOp(S, Range(S.eid2Entity) \ Range(eid2Entity))
    /\ UNCHANGED << tickVars, libVars >>

\* context.clear()
DoClear ==
    /\ Callable
    /\ LET S == ContextClear(Cur)
       IN  /\ WithinBounds(S)
           /\ Commit(S, Op("clear", 0, 0, S))
           /\ HistAfterOp(S, Range(eid2Entity))
    /\ UNCHANGED << tickVars, libVars >>

EntityNext ==
    \/ DoCreateEntity
    \/ \E e \in Constructed, t \in Types : DoAdd(e, t)
    \/ \E e \in Constructed, t \in Types : DoRemove(e, t)
    \/ \E e \in Constructed : DoDestroy(e)

Next ==
    \/ EntityNext
    \/ DoCreateEntityWithComps(<<0, 1>>)
    \/ \E t \in Types : DoGetSinglton(t)

Spec == Init /\ [][Next]_vars

(***************************************************************************)
(* An application that creates its groups while it runs, by               *)
(* context.createGroup, and tears the session down by context.clear().     *)
(***************************************************************************)
\* the matchers and the systemType arguments it passes to createGroup
GroupMatchers == {AllOfP, ExcludeOfV}
GroupKinds    == {"e", "r", "c"}

\* context.createGroup(matcher, systemType); last.e is the number of groups
\* before the call
DoCreateGroup(matcher, systemType) ==
    /\ Callable
    /\ LET S == CreateGroup(Cur, matcher, systemType)
       IN  /\ Len(S.groups) <= MaxGroups
           /\ Commit(S, Op("createGroup", Len(groups), 0, S))
           /\ HistAfterOp(S, {})
    /\ UNCHANGED << tickVars, libVars >>

\* a context without groups, entities or systems
InitIdle ==
    /\ InitContext(EmptyContext)
    /\ systems = <<>>
    /\ phase = "idle"
    /\ tickPos = 0
    /\ arg = <<>>
    /\ InitHist

InitGroups ==
    /\ InitIdle
    /\ InitLib

\* the application creates an entity while no more than TickEntities exist
TickCreateEntity ==
    /\ (nextEid <= TickEntities \/ entityPool # <<>>)
    /\ DoCreateEntity

NextGroups ==
    \/ \E m \in GroupMatchers, k \in GroupKinds : DoCreateGroup(m, k)
    \/ TickCreateEntity
    \/ \E e \in Constructed, t \in Types : DoAdd(e, t)
    \/ \E e \in Constructed, t \in Types : DoRemove(e, t)
    \/ \E e \in Constructed : DoDestroy(e)
    \/ DoClear

SpecGroups == InitGroups /\ [][NextGroups]_vars

(***************************************************************************)
(* The system family and RootSystem.                                       *)
(*                                                                         *)
(* A system is [kind, filter]: kind "E" an ExecuteSystem, "R" a            *)
(* ReactiveSystem, "A" an AutoDestroyEntityReactiveSystem, "X" an          *)
(* RExecuteSystem.  update and entityEnter are the application's code:     *)
(* while one runs (phase "update", "enter") it may call any of the         *)
(* operations above.                                                       *)
(***************************************************************************)
\* the systemType the constructor of a system passes to createGroup
SystemType(kind) == IF kind \in {"E", "X"} THEN "e" ELSE "r"

RECURSIVE ConstructSystems(_, _, _)
\* new XSystem() for each [kind, filter] of setup, then RootSystem.add of it:
\* <<context, executeSystemFlows>>
ConstructSystems(S, flows, setup) ==
    IF setup = <<>> THEN <<S, flows>>
    ELSE LET S1 == CreateGroup(S, Head(setup)[2], SystemType(Head(setup)[1]))
             S2 == IF Head(setup)[1] = "X"
                   THEN CreateGroup(S1, Head(setup)[2], "r")
                   ELSE [S1 EXCEPT !.ret = 0]
         IN  ConstructSystems(S2,
                 Append(flows, [kind |-> Head(setup)[1], group |-> S1.ret,
                                rGroup |-> S2.ret]),
                 Tail(setup))

\* The system lists of the applications.
SystemSetups ==
    { << <<"E", AnyOfPV>> >>,
      << <<"R", AllOfP>> >>,
      << <<"A", AllOfP>> >>,
      << <<"X", AnyOfPV>> >> }

InitTick ==
    /\ \E setup \in SystemSetups :
          LET built == ConstructSystems(EmptyContext, <<>>, setup)
          IN  /\ InitContext(built[1])
              /\ systems = built[2]
    /\ phase = "idle"
    /\ tickPos = 0
    /\ arg = <<>>
    /\ InitHist
    /\ InitLib

\* the record of step op of RootSystem.execute on the system at index i
TickOp(op, i, S, arr) ==
    [op |-> op, e |-> i, t |-> 0, ret |-> 0, bc |-> S.bc, arr |-> arr, evicted |-> 0]

\* RootSystem.execute(dt) is called
RootExecute ==
    /\ ~ threw
    /\ phase = "idle"
    /\ phase' = "loop"
    /\ tickPos' = 1
    /\ owed' = [i \in DOMAIN systems |-> [e \in EIDs |->
                  IF owed[i][e] = 1 THEN 2 ELSE owed[i][e]]]
    /\ quiet' = [e \in EIDs |-> IF quiet[e] = 0 THEN 1 ELSE quiet[e]]
    /\ last' = TickOp("execute", 0, Cur, <<>>)
    /\ visited' = <<>>
    /\ UNCHANGED << entities, nextEid, entityPool, eid2Entity, componentPools,
                    nextInst, groups, componentAddOrRemove, tid2comp, threw,
                    systems, arg, got, libVars >>

\* the loop of RootSystem.execute meets a system whose group has count 0
LoopSkip ==
    /\ ~ threw
    /\ phase = "loop"
    /\ tickPos \in DOMAIN systems
    /\ ~ (groups[systems[tickPos].group].count > 0)
    /\ tickPos' = tickPos + 1
    /\ last' = TickOp("skip", tickPos, Cur, <<>>)
    /\ visited' = Append(visited, systems[tickPos])
    /\ UNCHANGED << entities, nextEid, entityPool, eid2Entity, componentPools,
                    nextInst, groups, componentAddOrRemove, tid2comp, threw,
                    systems, phase, arg, owed, quiet, got, libVars >>

\* whether execute of system sys calls entityEnter: RExecuteSystem with
\* this.rGroup.count > 0
CallsEntityEnter(sys) == sys.kind = "X" /\ groups[sys.rGroup].count > 0

\* the loop calls sys.execute(dt) of an RExecuteSystem, which calls
\* entityEnter(this.rGroup.matchEntities)
LoopEnter ==
    /\ ~ threw
    /\ phase = "loop"
    /\ tickPos \in DOMAIN systems
    /\ groups[systems[tickPos].group].count > 0
    /\ CallsEntityEnter(systems[tickPos])
    /\ LET ri == systems[tickPos].rGroup
       IN  /\ groups' = [groups EXCEPT ![ri] = ReadMatchEntities(@)]
           /\ arg' = MatchEntitiesOf(groups[ri])
    /\ phase' = "enter"
    /\ got' = [got EXCEPT ![tickPos] =
                  [e \in EIDs |-> IF Contains(arg', e) THEN 1 ELSE @[e]]]
    /\ last' = TickOp("enter", tickPos, Cur, arg')
    /\ visited' = Append(visited, systems[tickPos])
    /\ UNCHANGED << entities, nextEid, entityPool, eid2Entity, componentPools,
                    nextInst, componentAddOrRemove, tid2comp, threw,
                    systems, tickPos, owed, quiet, libVars >>

\* entityEnter returns: RExecuteSystem.execute clears rGroup and calls
\* update(this.group.matchEntities)
EnterReturn ==
    /\ ~ threw
    /\ phase = "enter"
    /\ LET gi == systems[tickPos].group
           ri == systems[tickPos].rGroup
           gs == [groups EXCEPT ![ri] = GroupClear(@)]
       IN  /\ groups' = [gs EXCEPT ![gi] = ReadMatchEntities(@)]
           /\ arg' = MatchEntitiesOf(gs[gi])
    /\ phase' = "update"
    /\ last' = TickOp("update", tickPos, Cur, arg')
    /\ UNCHANGED << entities, nextEid, entityPool, eid2Entity, componentPools,
                    nextInst, componentAddOrRemove, tid2comp, threw,
                    systems, tickPos, histVars, libVars >>

\* the loop calls sys.execute(dt), which calls update(this.group.matchEntities)
LoopExecute ==
    /\ ~ threw
    /\ phase = "loop"
    /\ tickPos \in DOMAIN systems
    /\ ~ CallsEntityEnter(systems[tickPos])
    /\ LET gi == systems[tickPos].group
       IN  /\ groups[gi].count > 0
           /\ groups' = [groups EXCEPT ![gi] = ReadMatchEntities(@)]
           /\ arg' = MatchEntitiesOf(groups[gi])
    /\ phase' = "update"
    /\ owed' = [owed EXCEPT ![tickPos] =
                  [e \in EIDs |-> IF Contains(arg', e) THEN 0 ELSE @[e]]]
    /\ got' = [got EXCEPT ![tickPos] =
                  [e \in EIDs |-> IF systems[tickPos].kind = "R" /\ Contains(arg', e)
                                     /\ @[e] < 2
                                  THEN @[e] + 1 ELSE @[e]]]
    /\ last' = TickOp("update", tickPos, Cur, arg')
    /\ visited' = Append(visited, systems[tickPos])
    /\ UNCHANGED << entities, nextEid, entityPool, eid2Entity, componentPools,
                    nextInst, componentAddOrRemove, tid2comp, threw,
                    systems, tickPos, quiet, libVars >>

\* The array the running update (or entityEnter) holds.  The getter returns
\* this._entitiesCache itself, so as long as the group keeps that array as its
\* cache the two are one object; once the cache is dropped the array lives on
\* with the elements it had.
ArrayInHand ==
    LET gi == IF phase = "enter" THEN systems[tickPos].rGroup
              ELSE systems[tickPos].group
    IN  IF CacheIsNull(groups[gi]) THEN arg ELSE groups[gi].cache[1]

RECURSIVE DestroyAll(_, _)
\* for (let e of arr) e.destroy()
DestroyAll(S, arr) ==
    IF arr = <<>> \/ S.threw THEN S
    ELSE DestroyAll(EntityDestroy(S, Head(arr)), Tail(arr))

\* what ExecuteSystem.execute does after update has returned
ExecuteSystemAfterUpdate(S, gi) == S

\* what ReactiveSystem.execute does after update has returned
ReactiveSystemAfterUpdate(S, gi) ==
    [S EXCEPT !.groups[gi] = GroupClear(@)]

\* what AutoDestroyEntityReactiveSystem.execute does after update has returned
AutoDestroyAfterUpdate(S, gi) ==
    LET S1 == [S EXCEPT !.groups[gi] = ReadMatchEntities(@)]
        S2 == DestroyAll(S1, S1.groups[gi].cache[1])
    IN  IF S2.threw THEN S2 ELSE [S2 EXCEPT !.groups[gi] = GroupClear(@)]

\* what RExecuteSystem.execute does after update has returned
RExecuteSystemAfterUpdate(S, gi) == S

AfterUpdate(S, sys) ==
    CASE sys.kind = "E" -> ExecuteSystemAfterUpdate(S, sys.group)
      [] sys.kind = "X" -> RExecuteSystemAfterUpdate(S, sys.group)
      [] sys.kind = "R" -> ReactiveSystemAfterUpdate(S, sys.group)
      [] sys.kind = "A" -> AutoDestroyAfterUpdate(S, sys.group)

\* update returns; execute finishes and the loop goes on
UpdateReturn ==
    /\ ~ threw
    /\ phase = "update"
    /\ LET S == AfterUpdate(Cur, systems[tickPos])
       IN  /\ WithinBounds(S)
           /\ Commit(S, TickOp("return", tickPos, S, arg))
           /\ HistAfterOp(S, {e \in EIDs : entities[e].context /\ ~ S.entities[e].context})
    /\ phase' = "loop"
    /\ tickPos' = tickPos + 1
    /\ UNCHANGED << systems, arg, libVars >>

\* the loop of RootSystem.execute is over
LoopEnd ==
    /\ ~ threw
    /\ phase = "loop"
    /\ tickPos > Len(systems)
    /\ phase' = "idle"
    /\ tickPos' = 0
    /\ owed' = [i \in DOMAIN systems |-> [e \in EIDs |->
                  IF owed[i][e] = 2 THEN 3 ELSE owed[i][e]]]
    /\ quiet' = [e \in EIDs |-> IF quiet[e] = 1 THEN 2 ELSE quiet[e]]
    /\ last' = TickOp("done", 0, Cur, <<>>)
    /\ visited' = <<>>
    /\ UNCHANGED << entities, nextEid, entityPool, eid2Entity, componentPools,
                    nextInst, groups, componentAddOrRemove, tid2comp, threw,
                    systems, arg, got, libVars >>

TickNext ==
    \/ RootExecute
    \/ LoopSkip
    \/ LoopEnter
    \/ EnterReturn
    \/ LoopExecute
    \/ UpdateReturn
    \/ LoopEnd

NextTick ==
    \/ TickCreateEntity
    \/ \E e \in Constructed, t \in Types : DoAdd(e, t)
    \/ \E e \in Constructed, t \in Types : DoRemove(e, t)
    \/ \E e \in Constructed : DoDestroy(e)
    \/ TickNext

SpecTick == InitTick /\ [][NextTick]_vars

\* The system lists of the applications that register two reactive consumers
\* with one filter.
SharedFilterSetups ==
    { << <<"R", AllOfP>>, <<"R", AllOfP>> >>,
      << <<"R", AllOfP>>, <<"X", AllOfP>> >>,
      << <<"X", AllOfP>>, <<"R", AllOfP>> >> }

InitSharedFilter ==
    /\ \E setup \in SharedFilterSetups :
          LET built == ConstructSystems(EmptyContext, <<>>, setup)
          IN  /\ InitContext(built[1])
              /\ systems = built[2]
    /\ phase = "idle"
    /\ tickPos = 0
    /\ arg = <<>>
    /\ InitHist
    /\ InitLib

SpecSharedFilter == InitSharedFilter /\ [][NextTick]_vars

(***************************************************************************)
(* The five groups of GroupSetups and an application with one entity at a  *)
(* time.                                                                   *)
(***************************************************************************)
NextOneEntity ==
    \/ TickCreateEntity
    \/ \E e \in Constructed, t \in Types : DoAdd(e, t)
    \/ \E e \in Constructed, t \in Types : DoRemove(e, t)
    \/ \E e \in Constructed : DoDestroy(e)

SpecOneEntity == Init /\ [][NextOneEntity]_vars

\* The same application that also calls context.destroyEntity(entity) itself
NextRecycle ==
    \/ NextOneEntity
    \/ \E e \in Constructed : DoContextDestroyEntity(e)

SpecRecycle == Init /\ [][NextRecycle]_vars

(***************************************************************************)
(* The first ecs module of the file (lines 1-720).  Its Context, Entity    *)
(* and Group have the fields of the same names; an entity's                *)
(* _componentFlag is kept in the field mask.  The application creates one  *)
(* group per rule class before any entity exists and then creates          *)
(* entities and calls addComponent and removeComponent on them.            *)
(***************************************************************************)
\* the bits of one number of _componentFlag: (tid / 30) >>> 0 and tid % 30
LegacyWordBits == 30

\* _componentFlag: number[] = [0, 0]; a number is the set of its set bits
LegacyNewFlag == << {}, {} >>

\* flag[idx] |= 1 << offset
LegacyFlagSet(flag, t) ==
    [flag EXCEPT ![(t \div LegacyWordBits) + 1] = @ \cup {t % LegacyWordBits}]

\* flag[idx] &= ~(1 << offset)
LegacyFlagClear(flag, t) ==
    [flag EXCEPT ![(t \div LegacyWordBits) + 1] = @ \ {t % LegacyWordBits}]

\* Entity.hasComponent(ctor)
LegacyHasComponent(flag, t) ==
    (t % LegacyWordBits) \in flag[(t \div LegacyWordBits) + 1]

RECURSIVE LegacyBaseOfFlag(_, _)
\* the loop of the BaseOf constructor over args
LegacyBaseOfFlag(flag, args) ==
    IF args = <<>> THEN flag
    ELSE LegacyBaseOfFlag(LegacyFlagSet(flag, Head(args)), Tail(args))

\* new AnyOf(...args), new AllOf(...args), new OnlyOf(...args),
\* new NoneAllOf(...args): indices without duplicates, sorted
LegacyBaseOf(kind, args) ==
    [ kind |-> kind, componentFlag |-> LegacyBaseOfFlag(LegacyNewFlag, args),
      indices |-> SortedSeq(Range(args)) ]

\* isMatch(entity) of the rule classes
LegacyRuleIsMatch(rule, flag) ==
    LET superIsMatch ==
            /\ (flag[1] \cap rule.componentFlag[1]) = rule.componentFlag[1]
            /\ (flag[2] \cap rule.componentFlag[2]) = rule.componentFlag[2]
    IN  CASE rule.kind = "anyOf" ->
                 \/ (flag[1] \cap rule.componentFlag[1]) # {}
                 \/ (flag[2] \cap rule.componentFlag[2]) # {}
          [] rule.kind = "allOf" -> superIsMatch
          [] rule.kind = "onlyOf" ->
                 flag[1] = rule.componentFlag[1] /\ flag[2] = rule.componentFlag[2]
          [] rule.kind = "noneAllOf" -> ~ superIsMatch

\* Matcher.isMatch(entity): every rule of the matcher matches
LegacyIsMatch(rules, flag) ==
    \A k \in DOMAIN rules : LegacyRuleIsMatch(rules[k], flag)

\* Group.addEntity(entity)
LegacyAddEntity(g, eid) ==
    [g EXCEPT !.matchEntities = Append(@, eid), !.count = @ + 1]

\* Group.removeEntity(entity): the element at count - 1 takes the place of
\* the first occurrence and the array loses its last element
LegacyRemoveEntity(g, eid) ==
    IF Contains(g.matchEntities, eid)
    THEN LET arr == g.matchEntities
             idx == CHOOSE i \in DOMAIN arr :
                        arr[i] = eid /\ \A j \in 1 .. (i - 1) : arr[j] # eid
             moved == [arr EXCEPT ![idx] = arr[g.count]]
         IN  [g EXCEPT !.matchEntities = SubSeq(moved, 1, Len(moved) - 1),
                       !.count = @ - 1]
    ELSE g

\* Group.onComponentAddOrRemove(entity)
LegacyOnComponentAddOrRemove(g, eid, flag) ==
    IF LegacyIsMatch(g.matcher, flag)
    THEN LegacyAddEntity(g, eid)
    ELSE LegacyRemoveEntity(g, eid)

\* Context.broadcastComponentAddOrRemove(entity, componentTypeId)
LegacyBroadcast(S, eid, t) ==
    LET flag == S.entities[eid].mask
        events == S.componentAddOrRemove[t]
        RECURSIVE Loop(_, _)
        Loop(gs, i) ==
            IF i < 1 THEN gs
            ELSE Loop([gs EXCEPT ![events[i]] =
                           LegacyOnComponentAddOrRemove(@, eid, flag)], i - 1)
    IN  [S EXCEPT !.groups = Loop(@, Len(events)),
                  !.bc = Append(@, <<t, LegacyHasComponent(flag, t)>>)]

\* Entity.removeComponent(ctor)
LegacyRemoveComponent(S, eid, t) ==
    IF LegacyHasComponent(S.entities[eid].mask, t)
    THEN LET S1 == PutComponent(S, t, S.entities[eid].slot[t])
             S2 == [S1 EXCEPT !.entities[eid].slot[t] = 0,
                              !.entities[eid].mask = LegacyFlagClear(@, t)]
         IN  LegacyBroadcast(S2, eid, t)
    ELSE S

\* Entity.addComponent(ctor)
LegacyAddComponent(S, eid, t) ==
    IF ~ S.entities[eid].context THEN S    \* console.warn
    ELSE LET S1 == LegacyRemoveComponent(S, eid, t)
             S2 == CreateComponent(S1, t)
         IN  IF ~ S2.ok THEN S2
             ELSE LegacyBroadcast(
                      [S2 EXCEPT !.entities[eid].slot[t] = S2.ret,
                                 !.entities[eid].mask = LegacyFlagSet(@, t)],
                      eid, t)

\* Context.createEntity(): pop the pool or construct, init, index
LegacyCreateEntity(S) ==
    IF S.entityPool # <<>>
    THEN LET eid == S.entityPool[Len(S.entityPool)]
         IN  [S EXCEPT !.entityPool = SubSeq(@, 1, Len(@) - 1),
                       !.entities[eid].context = TRUE,
                       !.eid2Entity = MapSet(@, eid),
                       !.ret = eid]
    ELSE IF S.nextEid <= MaxEntities
    THEN LET eid == S.nextEid
         IN  [S EXCEPT !.nextEid = @ + 1,
                       !.entities[eid] = [NewEntity EXCEPT !.context = TRUE,
                                                           !.mask = LegacyNewFlag],
                       !.eid2Entity = MapSet(@, eid),
                       !.ret = eid]
    ELSE [S EXCEPT !.ok = FALSE]

\* Context.createGroup(matcher, 'c').  The key of a matcher names the class
\* and the sorted indices of each rule, so two matchers have one key exactly
\* when their rules are equal.
LegacyCreateGroup(S, rules) ==
    IF \E gi \in DOMAIN S.groups : S.groups[gi].matcher = rules
    THEN S
    ELSE LET gi == Len(S.groups) + 1
             indices == ConcatIndices(rules)
             RECURSIVE Bind(_, _)
             Bind(events, i) ==
                 IF i > Len(indices) THEN events
                 ELSE Bind([events EXCEPT ![indices[i]] = Append(@, gi)], i + 1)
         IN  [S EXCEPT !.groups = Append(@, [matcher |-> rules,
                                             matchEntities |-> <<>>,
                                             count |-> 0]),
                       !.componentAddOrRemove = Bind(@, 1)]

\* The matchers of the application: one per rule class.
LegacyMatchers ==
    << << LegacyBaseOf("allOf", <<0, 1>>) >>,
       << LegacyBaseOf("anyOf", <<0, 1>>) >>,
       << LegacyBaseOf("onlyOf", <<0>>) >>,
       << LegacyBaseOf("noneAllOf", <<0, 1>>) >> >>

RECURSIVE LegacyCreateGroups(_, _)
LegacyCreateGroups(S, ms) ==
    IF ms = <<>> THEN S
    ELSE LegacyCreateGroups(LegacyCreateGroup(S, Head(ms)), Tail(ms))

InitLegacy ==
    /\ InitContext(LegacyCreateGroups(EmptyContext, LegacyMatchers))
    /\ systems = <<>>
    /\ phase = "idle"
    /\ tickPos = 0
    /\ arg = <<>>
    /\ InitHist
    /\ InitLib

\* context.createEntity()
DoLegacyCreateEntity ==
    /\ LET S == LegacyCreateEntity(Cur)
       IN  /\ WithinBounds(S)
           /\ Commit(S, Op("createEntity", S.ret, 0, S))
           /\ HistAfterOp(S, {S.ret})
    /\ UNCHANGED << tickVars, libVars >>

\* entity.addComponent(ctor)
DoAddComponent(e, t) ==
    /\ LET S == LegacyAddComponent(Cur, e, t)
       IN  /\ WithinBounds(S)
           /\ Commit(S, Op("addComponent", e, t, S))
           /\ HistAfterOp(S, {e})
    /\ UNCHANGED << tickVars, libVars >>

\* entity.removeComponent(ctor)
DoRemoveComponent(e, t) ==
    /\ LET S == LegacyRemoveComponent(Cur, e, t)
       IN  /\ WithinBounds(S)
           /\ Commit(S, Op("removeComponent", e, t, S))
           /\ HistAfterOp(S, {e})
    /\ UNCHANGED << tickVars, libVars >>

NextLegacy ==
    \/ DoLegacyCreateEntity
    \/ \E e \in Constructed, t \in Types : DoAddComponent(e, t)
    \/ \E e \in Constructed, t \in Types : DoRemoveComponent(e, t)

SpecLegacy == InitLegacy /\ [][NextLegacy]_vars

(***************************************************************************)
(* System composition.  An application nests its leaf systems in System    *)
(* objects, adds leaves and System objects to the RootSystem, calls        *)
(* RootSystem.init and then creates entities and ticks.  A child handed to *)
(* add is <<"System", c>>, the System object c, or <<"leaf", l>>, the leaf *)
(* system l.                                                               *)
(***************************************************************************)
MaxSystems == 2

MaxInitCalls == 2

\* the context and the leaf systems after new ESystem(), new RSystem() and
\* new XSystem()
ComposeLeaves ==
    ConstructSystems(EmptyContext, <<>>,
                     << <<"E", AnyOfPV>>, <<"R", AllOfP>>, <<"X", AllOfPV>> >>)

\* System.add(system) on the System object p
DoSystemAdd(p, child) ==
    /\ ~ threw /\ phase = "idle"
    /\ composites.initCalls = 0
    /\ LET es == composites.executeSystems
       IN  composites' =
             [composites EXCEPT
                !.executeSystems =
                    IF child[1] = "System"    \* system instanceof System
                    THEN [[es EXCEPT ![p] = @ \o es[child[2]]]
                             EXCEPT ![child[2]] = <<>>]
                    ELSE [es EXCEPT ![p] = Append(@, child[2])],
                !.added = IF child[1] = "leaf" THEN @ \cup {child[2]} ELSE @]
    /\ last' = [NoOp EXCEPT !.op = "System.add", !.e = p, !.arr = child]
    /\ UNCHANGED << entities, nextEid, entityPool, eid2Entity, componentPools,
                    nextInst, groups, componentAddOrRemove, tid2comp, threw,
                    tickVars, histVars, reg, call >>

\* a RootSystem.add that pushes every child as it is, System objects too
DoRootAddNoFlatten(child) ==
    /\ ~ threw /\ phase = "idle"
    /\ composites.initCalls = 0
    /\ systems' = Append(systems, child[2])
    /\ composites' =
          [composites EXCEPT
             !.added = IF child[1] = "leaf" THEN @ \cup {child[2]} ELSE @]
    /\ owed' = [i \in DOMAIN systems' |-> [e \in EIDs |-> 0]]
    /\ got' = [i \in DOMAIN systems' |-> [e \in EIDs |-> 0]]
    /\ last' = [NoOp EXCEPT !.op = "RootSystem.add", !.arr = child]
    /\ UNCHANGED << entities, nextEid, entityPool, eid2Entity, componentPools,
                    nextInst, groups, componentAddOrRemove, tid2comp, threw,
                    phase, tickPos, arg, quiet, visited, reg, call >>

\* RootSystem.add(system)
DoRootAdd(child) ==
    /\ ~ threw /\ phase = "idle"
    /\ composites.initCalls = 0
    /\ LET es == composites.executeSystems
       IN  /\ systems' = IF child[1] = "System"
                         THEN systems \o es[child[2]]
                         ELSE Append(systems, child[2])
           /\ composites' =
                 [composites EXCEPT
                    !.executeSystems = IF child[1] = "System"
                                       THEN [es EXCEPT ![child[2]] = <<>>]
                                       ELSE es,
                    !.added = IF child[1] = "leaf" THEN @ \cup {child[2]} ELSE @,
                    !.viaSystem = IF child[1] = "System"
                                  THEN @ \cup Range(es[child[2]]) ELSE @]
    /\ owed' = [i \in DOMAIN systems' |-> [e \in EIDs |-> 0]]
    /\ got' = [i \in DOMAIN systems' |-> [e \in EIDs |-> 0]]
    /\ last' = [NoOp EXCEPT !.op = "RootSystem.add", !.arr = child]
    /\ UNCHANGED << entities, nextEid, entityPool, eid2Entity, componentPools,
                    nextInst, groups, componentAddOrRemove, tid2comp, threw,
                    phase, tickPos, arg, quiet, visited, reg, call >>

\* RootSystem.init(): sys.init() for each system of executeSystemFlows; the
\* init of the library's system classes has an empty body
DoRootInit ==
    /\ ~ threw /\ phase = "idle"
    /\ composites.initCalls < MaxInitCalls
    /\ composites' =
          [composites EXCEPT
             !.inits = [l \in DOMAIN @ |->
                          @[l] + Cardinality({i \in DOMAIN systems : systems[i] = l})],
             !.initCalls = @ + 1]
    /\ last' = [NoOp EXCEPT !.op = "RootSystem.init"]
    /\ UNCHANGED << entities, nextEid, entityPool, eid2Entity, componentPools,
                    nextInst, groups, componentAddOrRemove, tid2comp, threw,
                    tickVars, histVars, reg, call >>

InitCompose ==
    /\ InitContext(ComposeLeaves[1])
    /\ systems = <<>>
    /\ phase = "idle"
    /\ tickPos = 0
    /\ arg = <<>>
    /\ InitHist
    /\ reg = Registered
    /\ call = NoCall
    /\ composites = [executeSystems |-> [c \in 1 .. MaxSystems |-> <<>>],
                     inits |-> [l \in Range(ComposeLeaves[2]) |-> 0],
                     added |-> {}, viaSystem |-> {}, initCalls |-> 0]

NextCompose ==
    \/ \E p \in 1 .. MaxSystems :
          \E child \in {<<"System", c>> : c \in (1 .. MaxSystems) \ {p}}
                      \cup {<<"leaf", l>> :
                               l \in Range(ComposeLeaves[2]) \ composites.added} :
              DoSystemAdd(p, child)
    \/ \E child \in {<<"System", c>> : c \in 1 .. MaxSystems}
                  \cup {<<"leaf", l>> :
                           l \in Range(ComposeLeaves[2]) \ composites.added} :
          DoRootAdd(child)
    \/ DoRootInit
    \/ /\ phase = "idle" /\ composites.initCalls > 0
       /\ (nextEid <= TickEntities \/ entityPool # <<>>)
       /\ DoCreateEntityWithComps(<<0, 1>>)
    \/ \E e \in Constructed : phase = "idle" /\ DoDestroy(e)
    \/ (composites.initCalls > 0 /\ TickNext)

SpecCompose == InitCompose /\ [][NextCompose]_vars

(***************************************************************************)
(* The registry, rule construction and Context construction, called by an  *)
(* application that registers up to MaxCtors classes.                      *)
(***************************************************************************)
\* the capacity the constructor of Context tests
MaxComponents == 64

\* new Context() that rejects the 64th type already
NewContextOffByOne(r) ==
    LET n == Len(r.componentConstructors)
    IN  [ totalComponents      |-> n,
          componentPools       |-> [i \in 1 .. n |-> <<>>],
          componentAddOrRemove |-> [i \in 1 .. n |-> <<>>],
          threw                |-> n >= MaxComponents ]

\* new Context() under registry r: the fields it sets and whether it throws
NewContext(r) ==
    LET n == Len(r.componentConstructors)
    IN  [ totalComponents      |-> n,
          componentPools       |-> [i \in 1 .. n |-> <<>>],
          componentAddOrRemove |-> [i \in 1 .. n |-> <<>>],
          threw                |-> n > MaxComponents ]

\* the class that is never registered
Unregistered == MaxCtors + 1

\* the classes register is called on: the first two again and again, the
\* others once, one after the other
RegisterCtors == {1, 2} \cup ({reg.compTid + 1} \cap (1 .. MaxCtors))

\* the names they are registered under
Names(c) == IF c <= 2 THEN {"Position", "Velocity"} ELSE {"T" \o ToString(c)}

\* @ecs.register(componentName) on class c
DoRegister(c, componentName) ==
    /\ LET r == Register(reg, c, componentName)
       IN  /\ reg' = r.reg
           /\ call' = [fn |-> "register", a |-> c, b |-> componentName,
                       ret |-> r.threw]
    /\ UNCHANGED << composites, ctxVars, tickVars, histVars >>

\* Matcher.anyOf(c) / allOf(c) / excludeOf(c) / onlyOf(c)
DoMatcherRule(kind, c) ==
    /\ call' = [fn |-> "rule", a |-> kind, b |-> c,
                ret |-> MatcherRule(reg, NewMatcher, kind, <<c>>)]
    /\ UNCHANGED << reg, composites, ctxVars, tickVars, histVars >>

\* new Context()
DoNewContext ==
    /\ call' = [fn |-> "Context", a |-> <<>>, b |-> <<>>, ret |-> NewContext(reg)]
    /\ UNCHANGED << reg, composites, ctxVars, tickVars, histVars >>

InitRegistry ==
    /\ InitIdle
    /\ reg = EmptyRegistry
    /\ call = NoCall
    /\ composites = [executeSystems |-> <<>>, inits |-> <<>>, added |-> {},
                     viaSystem |-> {}, initCalls |-> 0]

NextRegistry ==
    \/ \E c \in RegisterCtors : \E n \in Names(c) : DoRegister(c, n)
    \/ \E kind \in {"anyOf", "allOf", "excludeOf", "onlyOf"},
          c \in {1, 2, Unregistered} : DoMatcherRule(kind, c)
    \/ DoNewContext

SpecRegistry == InitRegistry /\ [][NextRegistry]_vars

(***************************************************************************)
(* Mask and the rules under a full registry (MaxComponents classes, class  *)
(* k with tid k - 1), called on masks over the ids of MaskIds.             *)
(***************************************************************************)
RECURSIVE RegisterUpTo(_, _)
\* registry r after the classes r.compTid + 1 .. n have been registered in
\* that order
RegisterUpTo(r, n) ==
    IF r.compTid >= n THEN r
    ELSE RegisterUpTo(Register(r, r.compTid + 1,
                               "T" \o ToString(r.compTid + 1)).reg, n)

FullRegistry == RegisterUpTo(EmptyRegistry, MaxComponents)

\* the ids the masks are made of: the ends of both words of the Uint32Array
MaskIds == {0, 1, 31, 32, 63}

\* the mask of an entity or rule in which the bits of ids have been set
MaskOfIds(r, ids) == BaseOfMask(NewMaskN(r.compTid), SortedSeq(ids))

\* the classes of the ids of a full registry
CtorsOfIds(ids) == [i \in 1 .. Cardinality(ids) |-> SortedSeq(ids)[i] + 1]

\* A.or(B)
CallOr(A, B) ==
    /\ call.fn = "none"
    /\ call' = [fn |-> "or", a |-> A, b |-> B,
                ret |-> MaskOr(MaskOfIds(reg, A), MaskOfIds(reg, B))]
    /\ UNCHANGED << reg, composites, ctxVars, tickVars, histVars >>

\* A.and(B)
CallAnd(A, B) ==
    /\ call.fn = "none"
    /\ call' = [fn |-> "and", a |-> A, b |-> B,
                ret |-> MaskAnd(MaskOfIds(reg, A), MaskOfIds(reg, B))]
    /\ UNCHANGED << reg, composites, ctxVars, tickVars, histVars >>

\* Matcher.allOf(...A).isMatch(e) / Matcher.onlyOf(...A).isMatch(e) for an
\* entity e holding the components B
CallRuleIsMatch(kind, A, B) ==
    /\ call.fn = "none"
    /\ call' = [fn |-> kind, a |-> A, b |-> B,
                ret |-> IsMatch(MatcherRule(reg, NewMatcher, kind, CtorsOfIds(A)).matcher,
                                MaskOfIds(reg, B))]
    /\ UNCHANGED << reg, composites, ctxVars, tickVars, histVars >>

InitMask ==
    /\ InitIdle
    /\ reg = FullRegistry
    /\ call = NoCall
    /\ composites = [executeSystems |-> <<>>, inits |-> <<>>, added |-> {},
                     viaSystem |-> {}, initCalls |-> 0]

NextMask ==
    \/ \E A, B \in SUBSET MaskIds : CallOr(A, B)
    \/ \E A, B \in SUBSET MaskIds : CallAnd(A, B)
    \/ \E A, B \in SUBSET MaskIds : CallRuleIsMatch("allOf", A, B)
    \/ \E A, B \in SUBSET MaskIds : CallRuleIsMatch("onlyOf", A, B)

SpecMask == InitMask /\ [][NextMask]_vars

(***************************************************************************)
(* Matcher and OrMatcher of up to MaxRules rules over Position and         *)
(* Velocity: isMatch and getKey.                                           *)
(***************************************************************************)
\* the rules the matchers are made of
RuleInputs ==
    { BaseOf(kind, args) : kind \in {"anyOf", "allOf", "excludeOf"},
                           args \in {<<0>>, <<1>>, <<1, 0>>} }

\* new Matcher() / new OrMatcher() followed by up to MaxRules rule calls
MatcherInputs ==
    { [or |-> o, rules |-> rs] :
          o \in BOOLEAN,
          rs \in UNION { [1 .. k -> RuleInputs] : k \in 0 .. MaxRules } }

\* matcher.isMatch(e) for an entity e holding the components M
CallIsMatch(m, M) ==
    /\ call.fn = "none"
    /\ call' = [fn |-> "isMatch", a |-> m, b |-> M,
                ret |-> IsMatch(m, MaskOfIds(reg, M))]
    /\ UNCHANGED << reg, composites, ctxVars, tickVars, histVars >>

\* matcher.getKey()
CallGetKey(m) ==
    /\ call.fn = "none"
    /\ call' = [fn |-> "getKey", a |-> m, b |-> <<>>, ret |-> MatcherGetKey(m)]
    /\ UNCHANGED << reg, composites, ctxVars, tickVars, histVars >>

InitMatcher ==
    /\ InitIdle
    /\ InitLib

NextMatcher ==
    \/ \E m \in MatcherInputs, M \in SUBSET Types : CallIsMatch(m, M)
    \/ \E m \in MatcherInputs : CallGetKey(m)

SpecMatcher == InitMatcher /\ [][NextMatcher]_vars

(***************************************************************************)
(* Properties.                                                             *)
(***************************************************************************)
Live == {e \in Constructed : entities[e].context}

Member(gi, e) == Contains(groups[gi].matchEntities, e)

\* C1. Group consistency: after an add or remove on a live entity e, e is
\* in a group's membership set iff the group's matcher matches e's mask.
GroupConsistency ==
    (last.op \in {"add", "remove"} /\ last.e \in Live) =>
        \A gi \in DOMAIN groups :
            Member(gi, last.e) <=> IsMatch(groups[gi].matcher, entities[last.e].mask)

\* C2. Group.count equals the number of distinct entities of the group's
\* membership set.
CountIsSize ==
    \A gi \in DOMAIN groups : groups[gi].count = Len(groups[gi].matchEntities)

\* C3. RootSystem.execute never calls a system's update with an empty array.
UpdateArrayNonEmpty ==
    last.op = "update" => last.arr # <<>>

\* C4. Entity.destroy() on a live entity puts every instance that was
\* attached to it into the free pool of its type.
DestroyReleasesComponents ==
    [][ \A e \in EIDs :
          (last'.op = "destroy" /\ last'.e = e /\ entities[e].context /\ DoDestroy(e)) =>
              \A t \in Types :
                  entities[e].slot[t] # 0 =>
                      Contains(componentPools'[t], entities[e].slot[t]) ]_vars

\* C5. Entity.destroy() never throws, also on an entity that is already
\* destroyed.
DestroyNeverThrows ==
    last.op = "destroy" => ~ threw

\* C6. Replace semantics: add(T) on a live entity that holds T leaves T
\* attached (mask bit set, slot bound to the returned instance), makes two
\* broadcasts for T, the first with T's bit cleared (the remove) and the second
\* with it set (the add), and leaves the attached instance out of the pool.
ReplaceSemantics ==
    [][ \A e \in EIDs, t \in Types :
          (/\ last'.op = "add" /\ last'.e = e /\ last'.t = t
           /\ entities[e].context /\ MaskHas(entities[e].mask, t)
           /\ DoAdd(e, t)) =>
              /\ MaskHas(entities'[e].mask, t)
              /\ entities'[e].slot[t] # 0
              /\ entities'[e].slot[t] = last'.ret
              /\ Len(SelectSeq(entities'[e].compTid2Ctor, LAMBDA x : x = t)) = 1
              /\ last'.bc = << <<t, FALSE>>, <<t, TRUE>> >>
              /\ ~ Contains(componentPools'[t], entities'[e].slot[t])
              /\ \/ entities[e].slot[t] = entities'[e].slot[t]
                 \/ Contains(componentPools'[t], entities[e].slot[t]) ]_vars

\* C6 witness: an add has just replaced a component.
ReplaceHappened ==
    /\ last.op = "add"
    /\ last.bc = << <<last.t, FALSE>>, <<last.t, TRUE>> >>
    /\ last.ret # 0
    /\ entities[last.e].slot[last.t] = last.ret

\* C7 as claimed. Singleton eviction: the getSinglton(T) that follows the
\* removal of T from the singleton's backing entity returns an object
\* different from the evicted instance.
SingletonEvictionNewObject ==
    (last.op = "getSinglton" /\ last.evicted # 0) => last.ret # last.evicted

\* C7 as amended. Removing T from the singleton's backing entity evicts the
\* cache entry, and a getSinglton(T) that finds no entry creates a backing
\* entity and returns the instance attached to it, which it caches: the top of
\* T's pool when the pool is not empty (so the evicted instance itself when the
\* call follows the removal), a newly constructed instance otherwise.
SingletonEvictionRecreates ==
    [][ /\ \A e \in EIDs, t \in Types :
             (/\ last'.op = "remove" /\ last'.e = e /\ last'.t = t
              /\ tid2comp[t] # 0 /\ entities[e].slot[t] = tid2comp[t]
              /\ DoRemove(e, t)) => tid2comp'[t] = 0
        /\ \A t \in Types :
             (/\ last'.op = "getSinglton" /\ last'.t = t
              /\ tid2comp[t] = 0
              /\ DoGetSinglton(t)) =>
                 /\ last'.ret # 0
                 /\ tid2comp'[t] = last'.ret
                 /\ \E e \in Range(eid2Entity') \ Range(eid2Entity) :
                        entities'[e].slot[t] = last'.ret
                 /\ IF componentPools[t] # <<>>
                    THEN /\ last'.ret = componentPools[t][Len(componentPools[t])]
                         /\ nextInst' = nextInst
                    ELSE /\ last'.ret = nextInst[t] + 1
                         /\ nextInst'[t] = nextInst[t] + 1
                 /\ (last.op = "remove" /\ last.t = t /\ last.evicted # 0)
                        => last'.ret = last.evicted ]_vars

\* C7 witness: getSinglton has just run after the removal that evicted the
\* singleton, and returned an instance attached to a live entity.
SingletonRecreated ==
    /\ last.op = "getSinglton"
    /\ last.evicted # 0
    /\ last.ret # 0
    /\ tid2comp[last.t] = last.ret
    /\ \E e \in Live : entities[e].slot[last.t] = last.ret

\* C8. Reactive exactly-once delivery: an entity that started to match a
\* ReactiveSystem's filter has been passed to its update by the end of the
\* first tick that begins after that.
EntryDelivered ==
    \A i \in DOMAIN systems, e \in EIDs : owed[i][e] # 3

\* C9. Reactive one-shot: an entity that matches a ReactiveSystem's filter
\* and is not mutated from before a tick begins until it has ended has been
\* passed to the system's update since it started to match, and not more than
\* once since it was last mutated.
ReactiveOneShot ==
    \A i \in DOMAIN systems, e \in EIDs :
        systems[i].kind = "R" =>
            /\ got[i][e] <= 1
            /\ (quiet[e] = 2 /\ Matches(entities, i, e)) => owed[i][e] = 0

\* C10. When AutoDestroyEntityReactiveSystem.execute returns, it has not
\* thrown and every entity of the array it passed to update is destroyed.
AutoDestroyDestroysDelivered ==
    (last.op = "return" /\ systems[last.e].kind = "A") =>
        /\ ~ threw
        /\ \A e \in Range(last.arr) :
              /\ ~ entities[e].context
              /\ ~ Contains(eid2Entity, e)
              /\ Contains(entityPool, e)

\* C11. RExecuteSystem.execute: entityEnter is called only when rGroup has
\* members and with rGroup's matches; update is called after entityEnter has
\* returned or when rGroup has no member, with rGroup then empty (count 0) and
\* with the execute group's matches.
RExecuteEnterThenUpdate ==
    [][ /\ last'.op = "enter" =>
              /\ phase = "loop"
              /\ last'.arr # <<>>
              /\ last'.arr = groups[systems[last'.e].rGroup].matchEntities
        /\ (last'.op = "update" /\ systems[last'.e].kind = "X") =>
              /\ \/ phase = "enter"
                 \/ phase = "loop" /\ groups[systems[last'.e].rGroup].matchEntities = <<>>
              /\ groups'[systems[last'.e].rGroup].matchEntities = <<>>
              /\ groups'[systems[last'.e].rGroup].count = 0
              /\ last'.arr = groups'[systems[last'.e].group].matchEntities ]_vars

\* C12. After Context.clear() has returned, every group has an empty
\* membership set and count 0, the index of live entities is empty, no entity
\* is live, and clear has not thrown.
ClearEmptiesEverything ==
    last.op = "clear" =>
        /\ ~ threw
        /\ \A gi \in DOMAIN groups :
              groups[gi].matchEntities = <<>> /\ groups[gi].count = 0
        /\ eid2Entity = <<>>
        /\ \A e \in EIDs : ~ entities[e].context

\* C20. createGroup(matcher, kind) deduplicates by kind plus matcher key: when
\* a group is registered under that key the call returns it and changes
\* neither the registry nor the subscriber lists; otherwise it registers and
\* returns a new, empty group, distinct from every group there was (the groups
\* of the other kinds with the same matcher key included), and subscribes that
\* group only.  No two groups of the registry share a key.
CreateGroupDeduplicates ==
    [][ \A m \in GroupMatchers, k \in GroupKinds :
          (last'.op = "createGroup" /\ DoCreateGroup(m, k)) =>
              LET key == k \o "_" \o MatcherGetKey(m)
              IN  /\ IF \E i \in DOMAIN groups : groups[i].key = key
                     THEN /\ groups' = groups
                          /\ componentAddOrRemove' = componentAddOrRemove
                          /\ last'.ret \in DOMAIN groups
                          /\ groups[last'.ret].key = key
                     ELSE /\ Len(groups') = Len(groups) + 1
                          /\ last'.ret = Len(groups')
                          /\ SubSeq(groups', 1, Len(groups)) = groups
                          /\ groups'[last'.ret].key = key
                          /\ groups'[last'.ret].matcher = m
                          /\ groups'[last'.ret].matchEntities = <<>>
                          /\ groups'[last'.ret].count = 0
                          /\ \A t \in Types :
                                componentAddOrRemove'[t] =
                                    componentAddOrRemove[t] \o
                                    [j \in 1 .. Len(SelectSeq(MatcherIndices(m),
                                                      LAMBDA x : x = t)) |-> last'.ret]
                  /\ \A i, j \in DOMAIN groups' :
                        groups'[i].key = groups'[j].key => i = j ]_vars

\* C20 witness: createGroup has just returned a group that was already
\* registered and has a member, while a group of another kind with the same
\* matcher has its own, different membership set.
CreateGroupShared ==
    /\ last.op = "createGroup"
    /\ last.e = Len(groups)
    /\ groups[last.ret].matchEntities # <<>>
    /\ \E i \in DOMAIN groups :
          /\ i # last.ret
          /\ groups[i].matcher = groups[last.ret].matcher
          /\ groups[i].matchEntities # groups[last.ret].matchEntities

\* C13. Mask algebra over the ids 0..63: A.or(B) is true iff some id is set
\* in both, A.and(B) is true iff every id set in A is set in B, and
\* AllOf(S).isMatch(e) is true iff S is a subset of e's components.
MaskAlgebra ==
    /\ call.fn = "or" => (call.ret <=> call.a \cap call.b # {})
    /\ call.fn = "and" => (call.ret <=> call.a \subseteq call.b)
    /\ call.fn = "allOf" => (call.ret <=> call.a \subseteq call.b)

\* C14. register assigns the ids 0, 1, 2, ... in registration order, an id
\* once assigned never changes, and registering a name that some class is
\* registered under fails and leaves the registry unchanged, so that no two
\* registered classes have the same name.
RegisterUniqueNames ==
    [][ /\ \A i \in DOMAIN reg'.componentConstructors :
              reg'.componentConstructors[i].tid = i - 1
        /\ reg'.compTid = Len(reg'.componentConstructors)
        /\ \A c \in 1 .. MaxCtors :
              CtorTid(reg, c) # Undefined => CtorTid(reg', c) = CtorTid(reg, c)
        /\ (/\ call'.fn = "register"
            /\ \E i \in DOMAIN reg.componentConstructors :
                   reg.componentConstructors[i].compName = call'.b) =>
              (call'.ret /\ reg' = reg)
        /\ \A i, j \in DOMAIN reg'.componentConstructors :
              reg'.componentConstructors[i].compName =
                  reg'.componentConstructors[j].compName => i = j ]_vars

\* C15. Building a rule (anyOf, allOf, excludeOf, onlyOf) on a class that
\* is not registered throws, and no rule is made.
UnregisteredRuleThrows ==
    (call.fn = "rule" /\ CtorTid(reg, call.b) = Undefined) =>
        (call.ret.threw /\ call.ret.matcher.rules = <<>>)

\* C16. new Context() throws iff more than 64 classes are registered: it
\* succeeds with 64 and fails with 65.
ContextCapacity ==
    call.fn = "Context" =>
        /\ call.ret.threw <=> reg.compTid > 64
        /\ reg.compTid = 64 => ~ call.ret.threw
        /\ reg.compTid = 65 => call.ret.threw
        /\ call.ret.totalComponents = reg.compTid

\* C16 witness: the construction of a Context has just failed with 65
\* classes registered.
ContextRejected65 ==
    call.fn = "Context" /\ reg.compTid = 65 /\ call.ret.threw

\* C17. OnlyOf is exact membership: Matcher.onlyOf(S).isMatch(e) is true iff
\* the components of e are exactly S, for sets S of registered classes.
OnlyOfExact ==
    call.fn = "onlyOf" => (call.ret <=> call.a = call.b)

\* C18. Matcher.isMatch is the conjunction and OrMatcher.isMatch the
\* disjunction of the isMatch results of all its rules, for 0 to MaxRules
\* rules.
IsMatchComposes ==
    call.fn = "isMatch" =>
        LET m     == call.a
            emask == MaskOfIds(reg, call.b)
        IN  call.ret <=>
                IF m.or
                THEN \E i \in DOMAIN m.rules : RuleIsMatch(m.rules[i], emask)
                ELSE \A i \in DOMAIN m.rules : RuleIsMatch(m.rules[i], emask)

\* C18 witness: isMatch of a Matcher of two rules of which the first matches
\* and the second does not has returned false.
TwoRulesSecondFails ==
    /\ call.fn = "isMatch"
    /\ ~ call.a.or
    /\ Len(call.a.rules) = 2
    /\ RuleIsMatch(call.a.rules[1], MaskOfIds(reg, call.b))
    /\ ~ RuleIsMatch(call.a.rules[2], MaskOfIds(reg, call.b))
    /\ call.ret = FALSE

\* C19. Key soundness: a matcher whose getKey() equals that of another
\* matcher (Matcher or OrMatcher, of 0 to MaxRules rules) gives the same
\* isMatch result as the other on every entity mask.
KeySoundness ==
    call.fn = "getKey" =>
        \A m2 \in MatcherInputs :
            MatcherGetKey(m2) = call.ret =>
                \A M \in SUBSET Types :
                    IsMatch(m2, MaskOfIds(reg, M)) = IsMatch(call.a, MaskOfIds(reg, M))

\* C21. Subscription precision: an add or a remove of a type that is not in
\* matcher.indices of a group leaves that group as it was: its members, its
\* count and its cached array.
SubscriptionPrecise ==
    [][ last'.op \in {"add", "remove"} =>
          \A gi \in DOMAIN groups :
              ~ Contains(MatcherIndices(groups[gi].matcher), last'.t)
                  => groups'[gi] = groups[gi] ]_vars

\* an add that was broadcast, on an entity that now matches a group which is
\* not subscribed to the type and did not take the entity in
UnsubscribedGroupUntouched ==
    /\ last.op = "add" /\ last.bc # <<>>
    /\ \E gi \in DOMAIN groups :
          /\ ~ Contains(MatcherIndices(groups[gi].matcher), last.t)
          /\ IsMatch(groups[gi].matcher, entities[last.e].mask)
          /\ ~ Member(gi, last.e)


\* C22. Snapshot isolation: the array a system's update (or entityEnter) was
\* handed keeps its elements whatever add, remove or destroy is done while the
\* call runs; the changes show in the group's members, and the next read of
\* matchEntities returns exactly those members.
SnapshotIsolation ==
    [][ /\ (phase \in {"update", "enter"} /\ phase' = phase)
            => ArrayInHand' = ArrayInHand
        /\ \A gi \in DOMAIN groups' :
              MatchEntitiesOf(groups'[gi]) = groups'[gi].matchEntities ]_vars

\* inside an update a mutation has changed the members of the system's group:
\* the array in hand still has the elements it was handed with
StaleArrayInHand ==
    /\ phase = "update"
    /\ last.op \in {"add", "remove", "destroy"}
    /\ ArrayInHand # <<>>
    /\ ArrayInHand # groups[systems[tickPos].group].matchEntities


EntityIdsNeverReused ==
    [][ last'.op \in {"createEntity", "createEntityWithComps"}
            => last'.ret \notin Constructed ]_vars


\* C25. Exclusive component ownership: a component instance is attached to at
\* most one entity, is never attached and in its pool at once, and is never
\* twice in its pool.
ExclusiveOwnership ==
    \A t \in Types, c \in Insts \ {0} :
        Cardinality({e \in EIDs : entities[e].slot[t] = c})
          + Cardinality({i \in DOMAIN componentPools[t] : componentPools[t][i] = c})
          <= 1

\* an add took an instance out of a pool that held two: one instance is
\* attached again, the other is still pooled
RecycledWhileOtherPooled ==
    /\ last.op = "add" /\ last.ret # 0
    /\ entities[last.e].slot[last.t] = last.ret
    /\ componentPools[last.t] # <<>>


\* C26. add(T) on a destroyed entity (its context is null) is a no-op: it
\* returns no component, broadcasts nothing and leaves the entities' masks and
\* slots, the component pools, the groups and the singleton cache as they were.
AddOnDestroyedIsNoOp ==
    [][ (last'.op = "add" /\ ~ entities[last'.e].context) =>
          /\ last'.ret = 0
          /\ last'.bc = <<>>
          /\ ~ threw'
          /\ entities' = entities
          /\ componentPools' = componentPools /\ nextInst' = nextInst
          /\ groups' = groups
          /\ tid2comp' = tid2comp ]_vars

\* add has been called on an entity that destroy had released to the pool
AddedToDestroyed ==
    /\ last.op = "add" /\ last.ret = 0
    /\ ~ entities[last.e].context
    /\ Contains(entityPool, last.e)


\* C27. System composition and tick order.  System.add and RootSystem.add of
\* a System object append that object's leaf list, in its order, and empty
\* it; add of a leaf appends the leaf.  So every leaf handed to an add is in
\* exactly one list, and the root's list holds leaves only.  RootSystem.init
\* calls the init of each listed leaf once.  RootSystem.execute reaches the
\* listed leaves one by one in the order of the list, each once per tick, and
\* reaches no leaf while another one runs.
CompositionAndTickOrder ==
    [][ LET es    == composites.executeSystems
            esNew == composites'.executeSystems
            child == last'.arr
            Occurs(seq, l) == Cardinality({i \in DOMAIN seq : seq[i] = l})
        IN  /\ last'.op = "System.add" =>
                  /\ systems' = systems
                  /\ \A c \in DOMAIN es :
                        esNew[c] =
                          IF child[1] = "System"
                          THEN IF c = last'.e THEN es[c] \o es[child[2]]
                               ELSE IF c = child[2] THEN <<>> ELSE es[c]
                          ELSE IF c = last'.e THEN Append(es[c], child[2])
                               ELSE es[c]
            /\ last'.op = "RootSystem.add" =>
                  /\ systems' = IF child[1] = "System"
                                THEN systems \o es[child[2]]
                                ELSE Append(systems, child[2])
                  /\ \A c \in DOMAIN es :
                        esNew[c] = IF child = <<"System", c>> THEN <<>> ELSE es[c]
            /\ \A i \in DOMAIN systems' : systems'[i] \in DOMAIN composites'.inits
            /\ \A l \in DOMAIN composites'.inits :
                  Occurs(systems', l)
                    + Cardinality({c \in DOMAIN esNew : Occurs(esNew[c], l) > 0})
                    = (IF l \in composites'.added THEN 1 ELSE 0)
            /\ last'.op = "RootSystem.init" =>
                  \A l \in DOMAIN composites.inits :
                      composites'.inits[l] =
                          composites.inits[l] + Occurs(systems, l)
            /\ last'.op = "done" => visited = systems
            /\ Len(visited') <= Len(systems')
            /\ visited' = SubSeq(systems', 1, Len(visited'))
            /\ phase \in {"update", "enter"} => visited' = visited ]_vars

\* a tick has reached the end of a list of three leaves, two of which came
\* to the root out of a System object, after one call of init
NestedLeavesTicked ==
    /\ phase = "loop" /\ tickPos > Len(systems)
    /\ Len(systems) = 3 /\ visited = systems
    /\ Cardinality(composites.viaSystem) = 2
    /\ \A l \in DOMAIN composites.inits : composites.inits[l] = 1
    /\ \E e \in EIDs : entities[e].context


\* C28. Broadcast order independence: after the broadcasts of an add, a
\* remove or a destroy, the groups and the singleton cache are what they
\* would be had each broadcast called its subscribers in registration order
\* or in any other order.  (Each broadcast delivers the entity's mask of that
\* moment: the mask before it with the bit of the type as the broadcast saw
\* it.)
BroadcastOrderIndependent ==
    [][ last'.op \in {"add", "remove", "destroy"} =>
          LET RECURSIVE AnyOrder(_, _, _)
              AnyOrder(gs, emask, bcs) ==
                  IF bcs = <<>> THEN gs = groups'
                  ELSE LET t      == Head(bcs)[1]
                           m      == IF Head(bcs)[2] THEN MaskSet(emask, t)
                                     ELSE MaskDelete(emask, t)
                           events == componentAddOrRemove[t]
                       IN  \A p \in Permutations(DOMAIN events) :
                               AnyOrder(Notify(gs, [i \in DOMAIN events |->
                                                       events[p[i]]],
                                               Len(events), last'.e, m),
                                        m, Tail(bcs))
          IN  /\ \A i \in DOMAIN last'.bc : tid2comp'[last'.bc[i][1]] = 0
              /\ AnyOrder(groups, entities[last'.e].mask, last'.bc) ]_vars

\* a broadcast has gone to the five groups subscribed to Velocity, of which
\* one took the entity in and another dropped it
BroadcastToAllGroups ==
    /\ last.op = "add" /\ last.t = 1 /\ Len(last.bc) = 1
    /\ Len(componentAddOrRemove[1]) = 5
    /\ \E gi, gj \in DOMAIN groups :
          Member(gi, last.e) /\ ~ Member(gj, last.e)


\* C29. destroy() on a live entity leaves it with an empty mask, no
\* component in any slot and a null context, out of the live index and once
\* in the entity pool, after exactly one broadcast for each type that was
\* attached and none for any other type.  No entity is ever in the entity
\* pool and in the live index at once.
DestroyPostState ==
    [][ /\ (last'.op = "destroy" /\ entities[last'.e].context) =>
              LET e == last'.e
              IN  /\ ~ threw'
                  /\ entities'[e].mask = NewMask
                  /\ \A t \in Types : entities'[e].slot[t] = 0
                  /\ ~ entities'[e].context
                  /\ ~ Contains(eid2Entity', e)
                  /\ Cardinality({i \in DOMAIN entityPool' : entityPool'[i] = e}) = 1
                  /\ \A t \in Types :
                        Cardinality({i \in DOMAIN last'.bc : last'.bc[i][1] = t})
                          = (IF MaskHas(entities[e].mask, t) THEN 1 ELSE 0)
        /\ \A e \in EIDs : ~ (Contains(entityPool', e) /\ Contains(eid2Entity', e))
      ]_vars

\* an entity holding both components has been destroyed
DestroyedWithTwoComponents ==
    /\ last.op = "destroy" /\ Len(last.bc) = 2 /\ ~ threw
    /\ Contains(entityPool, last.e)


\* C30. Mask/slot agreement: between operations, for every entity and type,
\* the bit of the type is set in the entity's mask iff the entity's slot of
\* the type holds an instance iff has(type) is true.  Every broadcast is
\* delivered with the mask as the mutation left it: the bit set for an add,
\* cleared for a remove (the one inside a replacing add too) and a destroy.
MaskSlotAgreement ==
    [][ /\ \A e \in EIDs, t \in Types :
              /\ MaskHas(entities'[e].mask, t) = (entities'[e].slot[t] # 0)
              /\ MaskHas(entities'[e].mask, t) =
                     EntityHas([entities |-> entities'], e, t)
        /\ last'.op \in {"remove", "destroy"} =>
              \A i \in DOMAIN last'.bc : ~ last'.bc[i][2]
        /\ (last'.op = "add" /\ last'.bc # <<>>) =>
              /\ last'.bc[Len(last'.bc)] = <<last'.t, TRUE>>
              /\ \A i \in 1 .. (Len(last'.bc) - 1) : last'.bc[i] = <<last'.t, FALSE>>
      ]_vars

\* a remove has been broadcast with the bit cleared, on an entity that still
\* holds the other component
RemovedOneOfTwo ==
    /\ last.op = "remove" /\ last.bc = << <<last.t, FALSE>> >>
    /\ ~ EntityHas(Cur, last.e, last.t)
    /\ \E u \in Types \ {last.t} :
          EntityHas(Cur, last.e, u) /\ MaskHas(entities[last.e].mask, u)


\* C31. Matcher.indices holds each component-type id that a rule of the
\* matcher references exactly once, also when several rules reference the
\* same type.
IndicesWithoutDuplicates ==
    call.fn \in {"isMatch", "getKey"} =>
        LET indices == MatcherIndices(call.a)
        IN  /\ \A i, j \in DOMAIN indices : indices[i] = indices[j] => i = j
            /\ Range(indices) =
                   UNION {Range(call.a.rules[k].indices) : k \in DOMAIN call.a.rules}


\* C32. After destroy() has returned, the destroyed entity is a member of no
\* group, whatever the shape of the group's matcher, so no later array of
\* matchEntities holds it.
DestroyedInNoGroup ==
    \A e \in Constructed :
        ~ entities[e].context =>
            \A gi \in DOMAIN groups :
                /\ ~ Member(gi, e)
                /\ ~ Contains(MatchEntitiesOf(groups[gi]), e)


\* C33. Singleton stability: while the instance c that getSinglton(T) returned
\* stays attached to its live backing entity, operations on other entities
\* (add or remove of T or of another type, createEntity, createEntityWithComps,
\* destroy) and getSinglton itself leave c bound as the singleton of T, so
\* that the next getSinglton(T) returns c and creates no entity.
SingletonStable ==
    [][ \A t \in Types, b \in EIDs :
          ( /\ tid2comp[t] # 0
            /\ entities[b].context /\ entities[b].slot[t] = tid2comp[t]
            /\ last'.e # b )
          => tid2comp'[t] = tid2comp[t] ]_vars


\* C34. Every entity that createEntity() returns, constructed or taken from
\* the entity pool (where Entity.destroy() or a call of Context.destroyEntity
\* put it), has an empty mask and no component in any slot, is bound to the
\* context, is in the live index, and is in the live index once.
CreatedEntityIsBlank ==
    [][ last'.op = "createEntity" =>
          LET e == last'.ret
          IN  /\ entities'[e].mask = NewMask
              /\ \A t \in Types : entities'[e].slot[t] = 0
              /\ entities'[e].compTid2Ctor = <<>>
              /\ entities'[e].context
              /\ Cardinality({i \in DOMAIN eid2Entity' : eid2Entity'[i] = e}) = 1
      ]_vars


\* C36. RExecuteSystem driven by RootSystem.execute: every entity of the
\* array passed to update has been passed to entityEnter since it last started
\* to match the filter, also when it started to match while entityEnter or
\* update of this system was running.
UpdateOnlyAfterEnter ==
    [][ (last'.op = "update" /\ systems[last'.e].kind = "X") =>
            \A e \in Range(last'.arr) : got'[last'.e][e] = 1 ]_vars


\* C35. Two reactive consumers with one filter in one RootSystem (two
\* ReactiveSystems, or a ReactiveSystem and an RExecuteSystem, in either
\* order): when a tick has ended, an entity that matches the filter and was not
\* mutated from before the tick began until it ended has been delivered to
\* each of them (to update of a ReactiveSystem, to entityEnter of an
\* RExecuteSystem) since it started to match.
BothConsumersReceive ==
    \A i \in DOMAIN systems, e \in EIDs :
        ( /\ systems[i].kind \in {"R", "X"}
          /\ quiet[e] = 2
          /\ Matches(entities, i, e) )
        => IF systems[i].kind = "X" THEN got[i][e] = 1 ELSE owed[i][e] = 0


\* C37. First ecs module: after any sequence of createEntity, addComponent
\* and removeComponent, matchEntities of a group of any rule class (allOf,
\* anyOf, onlyOf, noneAllOf) holds no entity twice, and count is the number of
\* distinct entities in it.
LegacyGroupHoldsEntityOnce ==
    \A gi \in DOMAIN groups :
        LET arr == groups[gi].matchEntities
        IN  /\ \A i, j \in DOMAIN arr : arr[i] = arr[j] => i = j
            /\ groups[gi].count = Cardinality(Range(arr))

====
